---- MODULE Spec2Model ----
(***************************************************************************)
(* State-machine model of one worker of vite-ember-ssr-server: the         *)
(* sandbox pool of EmberApp, the visit pipeline of EmberApp.visit and      *)
(* EmberSsr.visit, and the two module-loading paths of a sandbox (the      *)
(* whitelisted require of ssr-schema.js and the import linker of           *)
(* ember-app.js).                                                          *)
(***************************************************************************)
EXTENDS Integers, Sequences, FiniteSets, TLC

(* ------------------------------- bounds -------------------------------- *)

\* largest maxSandboxQueueSize the worker is configured with
MaxQueueSize == 2

\* number of visit() calls made to the worker
MaxVisits == 2

\* longest module specifier (in characters) handed to the loaders
MaxSpecLen == 5

\* number of modules one sandbox build loads
MaxLoads == 1

\* exits of workers that the supervisor did not ask for (crashes, kills)
MaxExits == 1

\* calls of the notifier's callback
MaxNotifies == 1

\* largest workerCount option
MaxWorkerCount == 2

\* messages that reach a worker whose sender is left open
MaxMessages == 2

\* calls of EmberSsr.reload that build an application
MaxReloads == 1

\* longest pattern of a host allow-list entry, and longest other string
MaxPatternLen == 2

\* longest string among the values put into a shoebox
MaxValueLen == 2

\* longest host allow-list, and longest Host header
MaxListLen == 2

\* GET requests that reach the cache middleware
MaxRequests == 2

\* files of an artifact: entry scripts and the modules they import
MaxFiles == 3

\* every build the worker can start: the initial pool, plus for each visit
\* one cold build and one replacement, plus the pool of each reload
MaxBuilds == MaxQueueSize + 2 * MaxVisits + MaxReloads * MaxQueueSize

Visits == 1..MaxVisits
Entries == 1..MaxBuilds

(* ------------------------------- inputs -------------------------------- *)

\* What the artifact's entry scripts do when a sandbox is built.
\*   "ok"           every script evaluates and one exports createSsrApp
\*   "scriptThrows" module.evaluate() of an entry script throws
\*   "noFactory"    every script evaluates, none exports createSsrApp
\*   "linkFails"    reading or linking a script rejects (outside the try)
ArtifactKinds == {"ok", "scriptThrows", "noFactory", "linkFails"}

\* the `resilient` key of an options object: absent, or present with a value
ResilientOptions == {"absent", "true", "false"}

\* options.destroyAppInstanceInMs after parseInt
DestroyMsValues == {0, 50}

\* the promise the application declared with deferRendering
DeferredKinds == {"resolves", "rejects", "never"}

\* the awaits of EmberApp._visit, in order
VisitSteps == <<"boot", "buildInstance", "instanceBoot", "instanceVisit", "deferred">>
StepNames == {VisitSteps[i] : i \in 1..Len(VisitSteps)}

NoResult == [exists |-> FALSE, error |-> "none", finalized |-> FALSE,
             isDestroyed |-> FALSE, appDestroys |-> 0, usedPrebuiltSandbox |-> FALSE]

\* res and next before the middleware has touched them
NoResponse == [status |-> "unset", sent |-> "nothing", nextCalls |-> 0, nextError |-> "none"]

\* error.name of an error thrown by the application, as the middleware tests it
ErrorNames == {"UnrecognizedURLError", "Error"}

VARIABLES
  maxSandboxQueueSize, \* EmberApp constructor: options.maxSandboxQueueSize || 1
  artifact,            \* what the scripts of the loaded artifact do
  resilient,           \* EmberSsr.resilient
  ctorResilient,       \* the `resilient` key given to the EmberSsr constructor
  queueMaxSize,        \* Queue.maxSize
  items,               \* Queue.items: the pool, oldest entry first
  entryState,          \* per build: "none", "pending", "sandbox", "null", "rejected"
  nextId,              \* number of builds started so far
  pc,                  \* per visit: where the visit is
  vopt,                \* per visit: the options of the call
  visitResilient,      \* per visit: `resilient` computed by EmberSsr.visit
  entry,               \* per visit: the build handed out by dequeue (0: none yet)
  isItemPreBuilt,      \* per visit: queueObject.isItemPreBuilt
  result,              \* per visit: the Result object
  timer,               \* per visit: destroyAppInstanceTimer
  deferred,            \* per visit: fastbootInfo.deferredPromise
  enqueueCalls,        \* per visit: calls of Queue.enqueue made by the visit
  thrown,              \* per visit: the error a rejected promise carries
  whitelist,           \* moduleWhitelist of the artifact descriptor
  executed,            \* specifiers whose module code was resolved and run
  loadError,           \* outcome of the last load
  response,            \* per visit: what the express middleware did with res and next
  sup,                 \* the ViteEmberSsrServer of the primary process
  workers,             \* per forked process: its Worker, EmberSsr and message channel
  descriptorAt,        \* per directory: the package.json found there
  gen,                 \* EmberSsr._app: the ordinal of the EmberApp installed (0: the first)
  appOf,               \* per visit: the EmberApp that EmberSsr.visit called
  entryApp,            \* per build: the EmberApp whose queue started it
  builtFrom,           \* per build: the EmberApp whose scripts the sandbox evaluated
  retired,             \* per replaced EmberApp: its artifact and its Queue.items
  hostEntry,           \* an entry of hostWhitelist: a RegExp or a string
  savedEntry,          \* what ssrServerConfigKeys.hostWhitelist.save made of it
  loadedEntry,         \* what ssrServerConfigKeys.hostWhitelist.load made of that
  shoebox,             \* fastbootInfo.shoebox of a visit
  disableShoebox,      \* options.disableShoebox of that visit
  shoeboxPc,           \* where that visit is: "rendered" once _visit has resolved
  body,                \* the script elements appended to doc.body
  allowList,           \* hostWhitelist as the application configures it
  hostHeader,          \* the Host header of the request
  hostOutcome,         \* what SsrRequest.host() did: returned the host, or threw
  optionName,          \* the option the ViteEmberSsrServer constructor resolves
  optionValue,         \* options[o]
  optionDefault,       \* options.defaults[o]
  envValue,            \* env[envs[o]]
  resolved,            \* this[o] after the constructor
  chunkedResponse,     \* options.chunkedResponse of the render middleware
  cacheHas,            \* the cache holds a response for the path
  reqPc,               \* per request: where its middleware chain is
  sendPatched,         \* per request: res.send is the function of interceptResponseCompletion
  visitCalls,          \* per request: calls of emberSsr.visit
  putCalls,            \* per request: the bodies handed to cache.put
  served,              \* per request: what was answered: the cached response, or what visit gave
  scriptList,          \* EmberApp.scripts: the entry scripts of the artifact (0: a falsy entry)
  importsOf,           \* per file: the files its import declarations resolve to, in order
  throwing,            \* the files whose evaluation throws
  exporting,           \* the files whose namespace has a createSsrApp function
  building,            \* the build whose buildApp is being followed (0: none)
  scriptIndex,         \* buildApp: position of its loop in this.scripts
  createSsrApp,        \* buildApp: the factory has been found
  evaluated,           \* the files evaluated by the build last followed, one per evaluate() call
  failedAt,            \* position of the entry script at which that build was aborted (0: none)
  appsCreated,         \* calls of createSsrApp() made by the builds followed
  reported,            \* the builds whose rejection raised 'unhandledRejection'
  running,             \* the worker process has not exited
  candidateStats,      \* resolveImport: what statSync finds at each attempt's path
  specifierRelative,   \* resolveImport: the specifier starts with '.'
  hostResolves,        \* resolveImport: require.resolve(specifier) finds a module
  foundPath            \* resolveImport: what it returned

poolVars == <<queueMaxSize, items, entryState, nextId>>
visitVars == <<pc, vopt, visitResilient, entry, isItemPreBuilt, result, timer,
               deferred, enqueueCalls, thrown>>
configVars == <<maxSandboxQueueSize, artifact, resilient, ctorResilient>>
loaderVars == <<whitelist, executed, loadError>>
httpVars == <<response>>
clusterVars == <<sup, workers, descriptorAt>>
reloadVars == <<gen, appOf, entryApp, builtFrom, retired>>
regexpVars == <<hostEntry, savedEntry, loadedEntry>>
shoeboxVars == <<shoebox, disableShoebox, shoeboxPc, body>>

\* the variables of the parts that are checked on their own
hostVars == <<allowList, hostHeader, hostOutcome>>
optionVars == <<optionName, optionValue, optionDefault, envValue, resolved>>
cacheVars == <<chunkedResponse, cacheHas, reqPc, sendPatched, visitCalls, putCalls, served>>
buildVars == <<scriptList, importsOf, throwing, exporting, building, scriptIndex,
               createSsrApp, evaluated, failedAt, appsCreated, reported, running>>
resolveVars == <<candidateStats, specifierRelative, hostResolves, foundPath>>
loadingVars == <<buildVars, resolveVars>>
unitVars == <<shoeboxVars, hostVars, optionVars, cacheVars, loadingVars>>
vars == <<configVars, poolVars, visitVars, loaderVars, httpVars, clusterVars, reloadVars,
          regexpVars, unitVars>>

(* ------------------------------ Queue ---------------------------------- *)

\* The builder function handed to the Queue: every call starts a new build
\* (a new promise for a new vm context), identified by its ordinal.
builderFnCached(n) == 1
builderFn(n) == n + 1

\* The maxSize handed to the Queue constructor.
QueueMaxSizeOffByOne(k) == k + 1
QueueMaxSize(k) == k

\* Queue.enqueue: start one build and append it, unless the queue is full.
\* Yields the new <<items, entryState, nextId>>.
enqueue(its, es, n, max) ==
  IF Len(its) < max /\ n < MaxBuilds
    THEN <<Append(its, builderFn(n)), [es EXCEPT ![builderFn(n)] = "pending"], n + 1>>
    ELSE <<its, es, n>>

\* Queue.dequeue: the oldest entry, or a build started on the spot when the
\* queue is empty.  Yields the entry, whether it was pre-built, and the new
\* <<items, entryState, nextId>>.
dequeue(its, es, n) ==
  IF Len(its) = 0
    THEN [item |-> builderFn(n), isItemPreBuilt |-> FALSE,
          pool |-> <<its, [es EXCEPT ![builderFn(n)] = "pending"], n + 1>>]
    ELSE [item |-> Head(its), isItemPreBuilt |-> TRUE,
          pool |-> <<Tail(its), es, n>>]

\* EmberApp.buildSandboxQueue: a new Queue and maxSandboxQueueSize enqueues.
RECURSIVE enqueueTimes(_, _, _, _, _)
enqueueTimes(i, its, es, n, max) ==
  IF i = 0 THEN <<its, es, n>>
  ELSE LET p == enqueue(its, es, n, max)
       IN enqueueTimes(i - 1, p[1], p[2], p[3], max)

buildSandboxQueue(k) ==
  enqueueTimes(k, <<>>, [e \in Entries |-> "none"], 0, QueueMaxSize(k))

\* EmberApp.buildApp: what a build settles to for an artifact.
buildApp(a) ==
  CASE a = "ok"           -> "sandbox"
    [] a = "scriptThrows" -> "null"
    [] a = "noFactory"    -> "null"
    [] a = "linkFails"    -> "rejected"

(* --------------------------- module loading ---------------------------- *)

\* a character of a module specifier
Chars == {"@", "/", ".", "a"}

\* module specifiers, as sequences of characters
Specifiers == UNION {[1..n -> Chars] : n \in 1..MaxSpecLen}

\* the package names a descriptor's moduleWhitelist is drawn from: a, @a/a
WhitelistCandidates == {<<"a">>, <<"@", "a", "/", "a">>}

\* how JavaScript prints a missing array element in a concatenation
Undefined == <<"u", "n", "d", "e", "f", "i", "n", "e", "d">>

\* String.prototype.split('/')
RECURSIVE SplitFrom(_, _, _)
SplitFrom(s, i, cur) ==
  IF i > Len(s) THEN <<cur>>
  ELSE IF s[i] = "/" THEN <<cur>> \o SplitFrom(s, i + 1, <<>>)
  ELSE SplitFrom(s, i + 1, Append(cur, s[i]))

split(s) == SplitFrom(s, 1, <<>>)

\* getPackageName
getPackageNameFirstPart(modulePath) == split(modulePath)[1]
getPackageName(modulePath) ==
  LET parts == split(modulePath)
  IN IF modulePath[1] = "@"
       THEN parts[1] \o <<"/">> \o (IF Len(parts) >= 2 THEN parts[2] ELSE Undefined)
       ELSE parts[1]

\* specifier.startsWith('.')
startsWithDot(specifier) == specifier[1] = "."

\* The function built by buildWhitelistedRequire, called with moduleName on a
\* host that can (hostHas) or cannot resolve the module.
sandboxRequire(wl, moduleName, hostHas) ==
  IF getPackageName(moduleName) \in wl
    THEN (IF hostHas THEN "loaded" ELSE "MODULE_NOT_FOUND")
    ELSE "ModuleNotAllowed"

\* EmberApp.resolveImport: a bare specifier goes to the host's require.resolve;
\* a relative one to the first candidate file, else to require.resolve.
resolveImport(specifier, fileFound, hostHas) ==
  IF ~startsWithDot(specifier)
    THEN (IF hostHas THEN "resolved" ELSE "MODULE_NOT_FOUND")
    ELSE (IF fileFound \/ hostHas THEN "resolved" ELSE "MODULE_NOT_FOUND")

\* the link function of EmberApp.buildLink: resolve, build the script, evaluate
link(specifier, fileFound, hostHas) ==
  IF resolveImport(specifier, fileFound, hostHas) = "resolved"
    THEN "loaded"
    ELSE resolveImport(specifier, fileFound, hostHas)

(* ------------------------------ Result --------------------------------- *)

\* Result._destroy: destroys the application instance unless the result is
\* already destroyed; its return value tells whether it did.
Result_destroy(r) ==
  IF r.isDestroyed THEN r
  ELSE [r EXCEPT !.isDestroyed = TRUE, !.appDestroys = @ + 1]

Result_destroyReturns(r) == ~r.isDestroyed

\* Result._finalize
Result_finalize(r) == [r EXCEPT !.finalized = TRUE]

(* ---------------------------- EmberSsr --------------------------------- *)

\* EmberSsr constructor: this.resilient
ConstructorResilientDefaultTrue(opt) == IF opt # "absent" THEN opt = "true" ELSE TRUE
ConstructorResilient(opt) == IF opt # "absent" THEN opt = "true" ELSE FALSE

\* EmberSsr.visit: let resilient = 'resilient' in options ? options.resilient : this.resilient
VisitResilientIgnoresOption(opt, inst) == inst
VisitResilient(opt, inst) == IF opt # "absent" THEN opt = "true" ELSE inst

(* --------------------------- EmberApp.visit ---------------------------- *)

\* the timer callback: destroy, and mark the result only if this call destroyed
TimerCallback(r) ==
  IF Result_destroyReturns(r)
    THEN [Result_destroy(r) EXCEPT !.error = "Forced"]
    ELSE r

\* the destruction made by the finally block: result._destroy()
FinallyDestroyUnguarded(r) == [r EXCEPT !.isDestroyed = TRUE, !.appDestroys = @ + 1]
FinallyDestroy(r) == Result_destroy(r)

\* the finally block, as far as the result goes
Finally(r) == FinallyDestroy(Result_finalize(r))

\* the catch block followed by the finally block
CatchNoFinally(r, e) == [r EXCEPT !.error = e]
CatchFinally(r, e) == Finally([r EXCEPT !.error = e])

NextStep(s) == CHOOSE t \in StepNames :
                 \E i \in 1..(Len(VisitSteps) - 1) : VisitSteps[i] = s /\ VisitSteps[i + 1] = t

(* ------------------------------ SsrPaths ------------------------------- *)

\* an option, environment variable or message field that is absent
Null == "null"

\* directories an artifact can be found in
Paths == {"p1", "p2"}

\* a || b
Or(a, b) == IF a # Null THEN a ELSE b

\* SsrPaths.setPaths({ distPath, clientPath, ssrPath })
SsrPaths_setPaths(distPath, clientPath, ssrPath) ==
  [distPath   |-> distPath,
   clientPath |-> Or(clientPath, Or(distPath, ssrPath)),
   ssrPath    |-> Or(ssrPath, Or(distPath, clientPath)),
   hasPath    |-> (distPath # Null \/ clientPath # Null \/ ssrPath # Null)]

\* new SsrPaths(ssrPaths): the fields of another SsrPaths are read and set again
SsrPaths_copy(p) == SsrPaths_setPaths(p.distPath, p.clientPath, p.ssrPath)

(* ----------------------- supervisor and workers: data ------------------ *)

\* what fs.readFileSync and JSON.parse of loadConfig find at ssrPath
DescriptorKinds == {"ok", "missing", "malformed"}

\* loadConfig: TRUE when it throws
loadConfigThrows(d) == d # "ok"

\* what downloader.download() settles to: a directory, or a rejection
DownloadOutcomes == Paths \cup {"AppNotFound", "DownloadError"}

WorkerIds == 1..(2 * MaxWorkerCount + MaxExits)

\* processes that have not exited
Alive == {"forked", "starting", "online", "failed"}

\* a process that was never forked
NoWorker ==
  [state      |-> "none",
   env        |-> [clientPath |-> Null, ssrPath |-> Null],
   ssrPaths   |-> SsrPaths_setPaths(Null, Null, Null),  \* Worker.ssrPaths
   copy       |-> SsrPaths_setPaths(Null, Null, Null),  \* the SsrPaths made by the EmberSsr constructor
   appRef     |-> "none",      \* the SsrPaths object EmberSsr._app holds: "copy" or "worker"
   apps       |-> <<>>,        \* every EmberApp built: the SsrPaths object it holds, and
                               \* (for the claims) the paths it was constructed with
   bound      |-> FALSE,       \* process.on('message') was registered
   error      |-> "none",      \* Worker.error
   inbox      |-> <<>>,        \* messages sent to the process and not yet handled
   received   |-> 0,           \* messages that arrived from a sender left open
   onlineSent |-> FALSE,       \* process.send({ event: 'http-online' }) was called
   reloadedTo |-> Null]        \* (for the claims) the supervisor's paths when the
                               \* last handled reload was broadcast

\* the supervisor before start(), for the options given to its constructor
NewSupervisor(downloader, notifier, workerCount) ==
  [downloader  |-> downloader,
   notifier    |-> notifier,
   workerCount |-> workerCount,
   distPath    |-> IF downloader THEN Null ELSE "p1",
   ssrPaths    |-> IF downloader THEN SsrPaths_setPaths(Null, Null, Null)
                                 ELSE SsrPaths_setPaths("p1", Null, Null),
   initializationError |-> "none",
   startPc     |-> "new",      \* where the promise chain of start() is
   subscribed  |-> FALSE,      \* the notifier holds the callback
   reinits     |-> 0,          \* initializeApp() calls made by the callback, not settled
   notifies    |-> 0,
   shutdown    |-> FALSE,      \* stop() was called
   forked      |-> 0,          \* calls of cluster.fork
   exits       |-> 0,
   onlineSeen  |-> {}]         \* workers whose 'http-online' message was handled

NoCluster ==
  /\ sup = NewSupervisor(FALSE, FALSE, 1)
  /\ workers = [w \in WorkerIds |-> NoWorker]
  /\ descriptorAt = [p \in Paths |-> "ok"]

(* ------------------------------ regexp.js ------------------------------ *)

\* Strings are sequences of characters.  U+0001 is the character that the
\* escape \1 denotes inside a character class.
Unset == [type |-> "unset"]

NoHostEntry ==
  /\ hostEntry = Unset
  /\ savedEntry = Unset
  /\ loadedEntry = Unset

\* the literal that matchRegex starts with
RegexpPrefix == <<"r", "e", "g", "e", "x", "p", ":">>

SeqsUpTo(S, n) == UNION {[1..k -> S] : k \in 0..n}

\* characters of the patterns tried, none of them the delimiter
PatternChars == {"a", "b", "U+0001"}

\* characters of the strings tried
StringChars == {"a", "/", "\\", "U+0001"}

FlagStrings == {<<>>, <<"g">>, <<"i">>, <<"g", "i">>}

\* new RegExp(pattern, flags) throws for a flag that does not exist or is repeated
ValidFlags(f) ==
  /\ \A i \in 1..Len(f) : f[i] \in {"g", "i"}
  /\ \A i, j \in 1..Len(f) : f[i] = f[j] => i = j

\* RegExp.prototype.source: the pattern with every unescaped / escaped
RECURSIVE EscapeFrom(_, _, _)
EscapeFrom(p, i, escaped) ==
  IF i > Len(p) THEN <<>>
  ELSE IF escaped THEN <<p[i]>> \o EscapeFrom(p, i + 1, FALSE)
  ELSE IF p[i] = "\\" THEN <<p[i]>> \o EscapeFrom(p, i + 1, TRUE)
  ELSE IF p[i] = "/" THEN <<"\\", "/">> \o EscapeFrom(p, i + 1, FALSE)
  ELSE <<p[i]>> \o EscapeFrom(p, i + 1, FALSE)

\* new RegExp(pattern, flags)
NewRegExp(pattern, flags) ==
  IF ValidFlags(flags)
    THEN [type |-> "RegExp", source |-> EscapeFrom(pattern, 1, FALSE), flags |-> flags]
    ELSE [type |-> "SyntaxError"]

\* the allow-list entries tried: regular expressions and strings, some of the
\* strings starting like an encoding
HostEntries ==
  {NewRegExp(p, f) : p \in SeqsUpTo(PatternChars, MaxPatternLen) \ {<<>>}, f \in FlagStrings}
    \cup {[type |-> "string", chars |-> c] : c \in SeqsUpTo(StringChars, MaxPatternLen)}
    \cup {[type |-> "string", chars |-> RegexpPrefix \o <<"/">> \o c] :
            c \in SeqsUpTo(StringChars, MaxPatternLen)}

\* [^\1]: inside a character class \1 is the character U+0001, not the
\* delimiter captured by group 1
MatchesClass(c, delimiter) == c # "U+0001"

\* ((?:\\\1|[^\1])+) matches the whole of s
RECURSIVE MatchesGroup2From(_, _, _)
MatchesGroup2From(s, i, delimiter) ==
  IF i > Len(s) THEN TRUE
  ELSE \/ /\ i < Len(s)
          /\ s[i] = "\\"
          /\ s[i + 1] = delimiter
          /\ MatchesGroup2From(s, i + 2, delimiter)
       \/ /\ MatchesClass(s[i], delimiter)
          /\ MatchesGroup2From(s, i + 1, delimiter)

MatchesGroup2(s, delimiter) == Len(s) > 0 /\ MatchesGroup2From(s, 1, delimiter)

\* ([^\1]*)$ matches the whole of s
MatchesGroup3(s, delimiter) == \A i \in 1..Len(s) : MatchesClass(s[i], delimiter)

\* the positions of string at which the closing \1 can stand
ClosingPositions(string) ==
  {k \in 10..Len(string) :
     /\ string[k] = string[8]
     /\ MatchesGroup2(SubSeq(string, 9, k - 1), string[8])
     /\ MatchesGroup3(SubSeq(string, k + 1, Len(string)), string[8])}

Max(S) == CHOOSE x \in S : \A y \in S : y <= x

NoMatch == [matched |-> FALSE]

\* string.match(matchRegex): group 2 is greedy, so the closing delimiter is
\* the last position that lets the rest match
matchesSerializedRegExp(v) ==
  IF v.type # "string" THEN NoMatch
  ELSE LET string == v.chars
       IN IF /\ Len(string) >= 8
             /\ SubSeq(string, 1, 7) = RegexpPrefix
             /\ ClosingPositions(string) # {}
            THEN LET k == Max(ClosingPositions(string))
                 IN [matched |-> TRUE,
                     group2 |-> SubSeq(string, 9, k - 1),
                     group3 |-> SubSeq(string, k + 1, Len(string))]
            ELSE NoMatch

\* serializeRegExp
serializeRegExp(regex) ==
  IF regex.type # "RegExp" THEN regex
  ELSE [type |-> "string",
        chars |-> RegexpPrefix \o <<"/">> \o regex.source \o <<"/">> \o regex.flags]

\* deserializeRegExp
deserializeRegExp(string) ==
  LET match == matchesSerializedRegExp(string)
  IN IF match.matched THEN NewRegExp(match.group2, match.group3) ELSE string

(* ----------------------------- SsrRequest ------------------------------ *)

\* characters of Host headers and of literal allow-list entries
HostChars == {"a", "A", "b", "U+0001"}

HostHeaders == SeqsUpTo(HostChars, MaxListLen)

\* the entries an application lists: regular expressions and literal strings
AllowEntries ==
  {NewRegExp(p, f) : p \in SeqsUpTo(PatternChars, MaxPatternLen) \ {<<>>}, f \in {<<>>, <<"i">>}}
    \cup {[type |-> "string", chars |-> c] : c \in HostHeaders}

\* hostWhitelist of the configuration: absent, or a list of entries
NoAllowList == [defined |-> FALSE, entries |-> <<>>]

AllowLists == {NoAllowList} \cup {[defined |-> TRUE, entries |-> l] : l \in SeqsUpTo(AllowEntries, MaxListLen)}

\* the canonical form of a character under the flag i
FoldCase(c) == IF c = "A" THEN "a" ELSE c

\* RegExp.prototype.test for a pattern of literal characters: the pattern
\* occurs somewhere in the string
RegExpTest(regex, string) ==
  \E k \in 0..(Len(string) - Len(regex.source)) :
    \A j \in 1..Len(regex.source) :
      IF \E f \in 1..Len(regex.flags) : regex.flags[f] = "i"
        THEN FoldCase(string[k + j]) = FoldCase(regex.source[j])
        ELSE string[k + j] = regex.source[j]

\* ssrServerConfigKeys.hostWhitelist.save, as writeSsrServerConfigForServer
\* applies it before the list is written into the descriptor
SavedWhitelist(list) == [i \in 1..Len(list) |-> serializeRegExp(list[i])]

\* the callback handed to hostWhitelist.some
EntryMatches(e, host) ==
  IF matchesSerializedRegExp(e).matched
    THEN RegExpTest(deserializeRegExp(e), host)
    ELSE e = [type |-> "string", chars |-> host]

\* SsrRequest.host, for the hostWhitelist that loadConfig read from the descriptor
SsrRequest_host(hostWhitelist, host) ==
  IF ~hostWhitelist.defined THEN [type |-> "thrown", error |-> "NoHostWhitelist"]
  ELSE IF \E i \in 1..Len(hostWhitelist.entries) : EntryMatches(hostWhitelist.entries[i], host)
    THEN [type |-> "returned", host |-> host]
    ELSE [type |-> "thrown", error |-> "HostNotWhitelisted"]

\* host() was not called
NoHostCall ==
  /\ allowList = NoAllowList
  /\ hostHeader = <<>>
  /\ hostOutcome = Unset

(* --------------------- options of ViteEmberSsrServer -------------------- *)

\* JavaScript values, as far as ?? and || tell them apart
Nullish == {"undefined", "null"}
Falsy == Nullish \cup {"false", "0", "''"}

\* a ?? b
Coalesce(a, b) == IF a \in Nullish THEN b ELSE a

\* a || b
OrElse(a, b) == IF a \in Falsy THEN b ELSE a

\* some of the options: the value defaults() gives each, and whether envs
\* names an environment variable for it
OptionNames == {"distPath", "host", "port", "noGzip", "chunkedResponse"}

defaults(o) ==
  CASE o = "distPath" -> "null"
    [] o = "host" -> "'localhost'"
    [] o = "port" -> "4200"
    [] o = "noGzip" -> "false"
    [] o = "chunkedResponse" -> "true"

envs == {"distPath", "host", "port"}

\* what a caller can pass for an option, and put into options.defaults
OptionValues == {"undefined", "null", "false", "0", "''", "given"}
OptionDefaults == {"undefined", "givenDefault"}

\* a variable of the environment is not set, or holds a string
EnvValues == {"undefined", "'fromEnv'"}

\* { ...defaultOptions, ...(options.defaults || {}) }[o]
combinedDefaultOptions(o, od) == IF od = "undefined" THEN defaults(o) ELSE od

\* the loop body of the constructor
ResolveOption(o, v, e, od) ==
  OrElse(Coalesce(v, IF o \in envs THEN e ELSE "undefined"), combinedDefaultOptions(o, od))

\* no ViteEmberSsrServer is being constructed from options
NoOptions ==
  /\ optionName = "none"
  /\ optionValue = "undefined"
  /\ optionDefault = "undefined"
  /\ envValue = "undefined"
  /\ resolved = "unset"

(* ------------------------ ExpressHTTPServer cache ---------------------- *)

Requests == 1..MaxRequests

\* what cache.fetch(path, req) settles to
FetchOutcomes == {"hit", "miss", "rejects"}

\* what `await emberSsr.visit(path, visitOptions)` gives the render middleware:
\* a Result, a Result that carries an error, nothing, or an exception
RenderOutcomes == {"result", "resultWithError", "noResult", "throws"}

\* options.chunkedResponse ? await result.chunks() : await result.html()
ResultBody(chunked) == IF chunked THEN "chunks" ELSE "string"

\* The statements of the render middleware that write the response: the
\* method of res that completes it, and what it is given.
MiddlewareWrites(chunked, outcome) ==
  CASE outcome = "noResult" -> [method |-> "send", body |-> "shell"]
    [] outcome = "throws" -> [method |-> "next", body |-> "none"]
    [] outcome = "result" ->
         IF ResultBody(chunked) = "string"
           THEN [method |-> "send", body |-> "body"]
           ELSE [method |-> "write+end", body |-> "body"]
    [] outcome = "resultWithError" ->
         IF ResultBody(chunked) = "string"
           THEN [method |-> "send", body |-> "body"]
           ELSE [method |-> "send", body |-> "firstChunk"]

\* no request has reached the cache middleware
NoCache ==
  /\ chunkedResponse = TRUE
  /\ cacheHas = FALSE
  /\ reqPc = [r \in Requests |-> "idle"]
  /\ sendPatched = [r \in Requests |-> FALSE]
  /\ visitCalls = [r \in Requests |-> 0]
  /\ putCalls = [r \in Requests |-> <<>>]
  /\ served = [r \in Requests |-> "nothing"]

(* ------------------------------ the shoebox ---------------------------- *)

\* characters of the strings put into a shoebox: the five that
\* JSON_ESCAPE_REGEXP names, the two that JSON.stringify escapes, and one other
ShoeboxChars == {"a", "<", ">", "&", "U+2028", "U+2029", "\"", "\\"}

JSONNull == [type |-> "null"]
JSONString(chars) == [type |-> "string", chars |-> chars]
JSONArray(elements) == [type |-> "array", items |-> elements]

ShoeboxStrings(n) == {JSONString(c) : c \in SeqsUpTo(ShoeboxChars, n)}

\* JSON-serializable values: strings, null, arrays of strings and of null,
\* arrays of arrays
ShoeboxValues ==
  ShoeboxStrings(MaxValueLen)
    \cup {JSONNull}
    \cup {JSONArray(i) : i \in SeqsUpTo(ShoeboxStrings(1) \cup {JSONNull}, 2)}
    \cup {JSONArray(<<JSONArray(<<s>>)>>) : s \in ShoeboxStrings(1)}

\* the keys an application stores under
ShoeboxKeys == <<"k1", "k2">>

\* fastbootInfo.shoebox: not set, or an object with own keys and with keys
\* inherited from its prototype
NoShoeboxObject == [defined |-> FALSE, own |-> <<>>, inherited |-> {}]

Shoeboxes ==
  {NoShoeboxObject}
    \cup {[defined |-> TRUE, own |-> f, inherited |-> i] :
            f \in [{"k1"} -> ShoeboxValues] \cup [{"k2"} -> ShoeboxValues], i \in SUBSET {"k1", "k2"}}
    \cup {[defined |-> TRUE, own |-> f, inherited |-> i] :
            f \in {<<>>} \cup [{"k1", "k2"} -> ShoeboxStrings(1) \cup {JSONNull}],
            i \in SUBSET {"k1", "k2"}}

\* s1 \o s2 \o ... for a sequence of sequences
RECURSIVE Flatten(_)
Flatten(ss) == IF ss = <<>> THEN <<>> ELSE Head(ss) \o Flatten(Tail(ss))

\* JSON.stringify of a string: the quotation mark and the backslash are escaped
QuoteChar(c) == IF c \in {"\"", "\\"} THEN <<"\\", c>> ELSE <<c>>

\* JSON.stringify
RECURSIVE JSONStringify(_)
JSONStringify(v) ==
  CASE v.type = "string" ->
         <<"\"">> \o Flatten([i \in 1..Len(v.chars) |-> QuoteChar(v.chars[i])]) \o <<"\"">>
    [] v.type = "null" -> <<"n", "u", "l", "l">>
    [] v.type = "array" ->
         <<"[">> \o Flatten([i \in 1..Len(v.items) |->
                               (IF i > 1 THEN <<",">> ELSE <<>>) \o JSONStringify(v.items[i])])
                 \o <<"]">>

\* the characters that JSON_ESCAPE_REGEXP matches
JSON_ESCAPE_REGEXP_NoSeparators == {"&", ">", "<"}
JSON_ESCAPE_REGEXP == {"U+2028", "U+2029", "&", ">", "<"}

\* the table JSON_ESCAPE
JSON_ESCAPE(match) ==
  CASE match = "&" -> <<"\\", "u", "0", "0", "2", "6">>
    [] match = ">" -> <<"\\", "u", "0", "0", "3", "e">>
    [] match = "<" -> <<"\\", "u", "0", "0", "3", "c">>
    [] match = "U+2028" -> <<"\\", "u", "2", "0", "2", "8">>
    [] match = "U+2029" -> <<"\\", "u", "2", "0", "2", "9">>

\* escapeJSONString
escapeJSONString(string) ==
  Flatten([i \in 1..Len(string) |->
             IF string[i] \in JSON_ESCAPE_REGEXP THEN JSON_ESCAPE(string[i]) ELSE <<string[i]>>])

\* the script element createShoebox appends for one key
ShoeboxScript(key, value) ==
  [type |-> "ssr/shoebox", id |-> key, text |-> escapeJSONString(JSONStringify(value))]

\* createShoebox: the loop over the keys, which skips the inherited ones
RECURSIVE createShoeboxFrom(_, _, _)
createShoeboxFrom(docBody, sb, i) ==
  IF i > Len(ShoeboxKeys) THEN docBody
  ELSE LET key == ShoeboxKeys[i]
       IN IF key \in DOMAIN sb.own
            THEN createShoeboxFrom(Append(docBody, ShoeboxScript(key, sb.own[key])), sb, i + 1)
            ELSE createShoeboxFrom(docBody, sb, i + 1)

createShoebox(docBody, sb) == IF ~sb.defined THEN docBody ELSE createShoeboxFrom(docBody, sb, 1)

\* no visit has reached its shoebox
NoShoebox ==
  /\ shoebox = NoShoeboxObject
  /\ disableShoebox = FALSE
  /\ shoeboxPc = "idle"
  /\ body = <<>>

\* no build is followed script by script
NoBuild ==
  /\ scriptList = <<>>
  /\ importsOf = <<>>
  /\ throwing = {}
  /\ exporting = {}
  /\ building = 0
  /\ scriptIndex = 1
  /\ createSsrApp = FALSE
  /\ evaluated = <<>>
  /\ failedAt = 0
  /\ appsCreated = 0
  /\ reported = {}
  /\ running = TRUE

\* resolveImport has not been called
NoResolve ==
  /\ candidateStats = <<>>
  /\ specifierRelative = FALSE
  /\ hostResolves = FALSE
  /\ foundPath = "unset"

\* the parts checked on their own, at rest
IdleUnits ==
  /\ NoShoebox
  /\ NoHostCall
  /\ NoOptions
  /\ NoCache
  /\ NoBuild
  /\ NoResolve

(* ------------------------- EmberSsr and its apps ----------------------- *)

\* EmberSsr after its constructor: the first EmberApp, no build settled
FirstApp ==
  /\ gen = 0
  /\ appOf = [v \in Visits |-> 0]
  /\ entryApp = [e \in Entries |-> 0]
  /\ builtFrom = [e \in Entries |-> 0]
  /\ retired = [g \in 0..(MaxReloads - 1) |-> [artifact |-> "ok", items |-> <<>>]]

\* the artifact an EmberApp loaded in its constructor
ArtifactOf(g) == IF g = gen THEN artifact ELSE retired[g].artifact

\* Queue.items of an EmberApp
ItemsOf(g) == IF g = gen THEN items ELSE retired[g].items

\* buildApp evaluates this.scripts: the scripts of the EmberApp whose queue
\* called the builder
ScriptsOfInstalledApp(e) == gen
ScriptsOf(e) == entryApp[e]

\* the finally block of EmberApp.visit enqueues on
\* this._sandboxApplicationInstanceQueue: the queue of the visit's own EmberApp
QueueOfInstalledApp(v) == gen
QueueOfVisit(v) == appOf[v]

\* the builds that an enqueue or a dequeue started belong to EmberApp g
StartedBy(ea, n, m, g) == [e \in Entries |-> IF n < e /\ e <= m THEN g ELSE ea[e]]

\* the worker after the constructors of EmberSsr and EmberApp, for the
\* configuration and the artifact it was given
NewWorker ==
  /\ resilient = ConstructorResilient(ctorResilient)
  /\ queueMaxSize = QueueMaxSize(maxSandboxQueueSize)
  /\ items = buildSandboxQueue(maxSandboxQueueSize)[1]
  /\ entryState = buildSandboxQueue(maxSandboxQueueSize)[2]
  /\ nextId = buildSandboxQueue(maxSandboxQueueSize)[3]
  /\ pc = [v \in Visits |-> "idle"]
  /\ vopt = [v \in Visits |-> [resilient |-> "absent", destroyAppInstanceInMs |-> 0]]
  /\ visitResilient = [v \in Visits |-> FALSE]
  /\ entry = [v \in Visits |-> 0]
  /\ isItemPreBuilt = [v \in Visits |-> FALSE]
  /\ result = [v \in Visits |-> NoResult]
  /\ timer = [v \in Visits |-> "unset"]
  /\ deferred = [v \in Visits |-> "none"]
  /\ enqueueCalls = [v \in Visits |-> 0]
  /\ thrown = [v \in Visits |-> "none"]
  /\ whitelist = {}
  /\ executed = {}
  /\ loadError = "none"
  /\ response = [v \in Visits |-> NoResponse]
  /\ NoCluster
  /\ FirstApp
  /\ NoHostEntry

Init ==
  /\ maxSandboxQueueSize \in 1..MaxQueueSize
  /\ artifact \in ArtifactKinds
  /\ ctorResilient \in ResilientOptions
  /\ NewWorker
  /\ IdleUnits

\* A build started by the queue settles (the microtask of
\* buildNewApplicationInstance and the awaits of buildApp have run).
BuildSettles(e) ==
  /\ entryState[e] = "pending"
  /\ entryState' = [entryState EXCEPT ![e] = buildApp(ArtifactOf(ScriptsOf(e)))]
  /\ builtFrom' = [builtFrom EXCEPT ![e] = ScriptsOf(e)]
  /\ UNCHANGED <<configVars, queueMaxSize, items, nextId, visitVars, loaderVars, httpVars,
                 clusterVars, gen, appOf, entryApp, retired, regexpVars, unitVars>>

\* EmberSsr.visit up to its await, EmberApp.visit up to the await inside
\* getNewApplicationInstance: the options are read and the queue is dequeued.
\* Visits are numbered in the order in which they are called.
StartVisit(v, ro, ms) ==
  /\ pc[v] = "idle"
  /\ \A w \in Visits : w < v => pc[w] # "idle"
  /\ LET q == dequeue(items, entryState, nextId)
     IN /\ items' = q.pool[1]
        /\ entryState' = q.pool[2]
        /\ nextId' = q.pool[3]
        /\ entry' = [entry EXCEPT ![v] = q.item]
        /\ isItemPreBuilt' = [isItemPreBuilt EXCEPT ![v] = q.isItemPreBuilt]
        /\ entryApp' = StartedBy(entryApp, nextId, q.pool[3], gen)
  /\ appOf' = [appOf EXCEPT ![v] = gen]
  /\ vopt' = [vopt EXCEPT ![v] = [resilient |-> ro, destroyAppInstanceInMs |-> ms]]
  /\ visitResilient' = [visitResilient EXCEPT ![v] = VisitResilient(ro, resilient)]
  /\ pc' = [pc EXCEPT ![v] = "awaitItem"]
  /\ UNCHANGED <<configVars, queueMaxSize, result, timer, deferred, enqueueCalls,
                 thrown, loaderVars, httpVars, clusterVars, gen, builtFrom, retired, regexpVars, unitVars>>

\* getAppInstanceInfo, as getNewApplicationInstance calls it
getAppInstanceInfoDefaulted(appContext, isAppInstancePreBuilt) ==
  [appContext |-> appContext, isSandboxPreBuilt |-> TRUE]
getAppInstanceInfo(appContext, isAppInstancePreBuilt) ==
  [appContext |-> appContext, isSandboxPreBuilt |-> isAppInstancePreBuilt]

\* `await queueObject.item` resumes with a sandbox: the Result is created, the
\* forced-destroy timer is armed and _visit calls app.boot().
GotSandbox(v) ==
  /\ pc[v] = "awaitItem"
  /\ entryState[entry[v]] = "sandbox"
  /\ result' = [result EXCEPT ![v] = [NoResult EXCEPT !.exists = TRUE,
                                        !.usedPrebuiltSandbox =
                                           getAppInstanceInfo(entry[v], isItemPreBuilt[v])
                                             .isSandboxPreBuilt]]
  /\ timer' = [timer EXCEPT ![v] =
                 IF vopt[v].destroyAppInstanceInMs > 0 THEN "armed" ELSE "unset"]
  /\ pc' = [pc EXCEPT ![v] = "boot"]
  /\ UNCHANGED <<configVars, poolVars, vopt, visitResilient, entry, isItemPreBuilt,
                 deferred, enqueueCalls, thrown, loaderVars, httpVars, clusterVars, reloadVars, regexpVars, unitVars>>

\* `await queueObject.item` resumes with null (the destructuring of
\* appContext throws a TypeError) or rejects with the build's error: the
\* promise of EmberApp.visit rejects before the try statement is entered.
GotNoSandbox(v) ==
  /\ pc[v] = "awaitItem"
  /\ entryState[entry[v]] \in {"null", "rejected"}
  /\ thrown' = [thrown EXCEPT ![v] =
                  IF entryState[entry[v]] = "null" THEN "TypeError" ELSE "BuildError"]
  /\ pc' = [pc EXCEPT ![v] = "rejected"]
  /\ UNCHANGED <<configVars, poolVars, vopt, visitResilient, entry, isItemPreBuilt,
                 result, timer, deferred, enqueueCalls, loaderVars, httpVars, clusterVars, reloadVars, regexpVars, unitVars>>

\* the finally block, as far as the pool and the timer go
FinallyEffectsNoClearTimeout(v) ==
  /\ timer' = timer
  /\ LET g == QueueOfVisit(v)
         p == enqueue(ItemsOf(g), entryState, nextId, queueMaxSize)
     IN /\ items' = IF g = gen THEN p[1] ELSE items
        /\ retired' = IF g = gen THEN retired ELSE [retired EXCEPT ![g].items = p[1]]
        /\ entryState' = p[2]
        /\ nextId' = p[3]
        /\ entryApp' = StartedBy(entryApp, nextId, p[3], g)
  /\ enqueueCalls' = [enqueueCalls EXCEPT ![v] = @ + 1]
FinallyEffects(v) ==
  /\ timer' = [timer EXCEPT ![v] = IF @ = "armed" THEN "cleared" ELSE @]
  /\ LET g == QueueOfVisit(v)
         p == enqueue(ItemsOf(g), entryState, nextId, queueMaxSize)
     IN /\ items' = IF g = gen THEN p[1] ELSE items
        /\ retired' = IF g = gen THEN retired ELSE [retired EXCEPT ![g].items = p[1]]
        /\ entryState' = p[2]
        /\ nextId' = p[3]
        /\ entryApp' = StartedBy(entryApp, nextId, p[3], g)
  /\ enqueueCalls' = [enqueueCalls EXCEPT ![v] = @ + 1]

\* One of the first four awaits of _visit resolves.  When the route visit
\* resolves, the application has declared its deferred-rendering promise.
StepResolves(v, d) ==
  /\ pc[v] \in StepNames \ {"deferred"}
  /\ pc' = [pc EXCEPT ![v] = NextStep(pc[v])]
  /\ deferred' = [deferred EXCEPT ![v] = IF pc[v] = "instanceVisit" THEN d ELSE @]
  /\ d = "resolves" \/ pc[v] = "instanceVisit"
  /\ UNCHANGED <<configVars, poolVars, vopt, visitResilient, entry, isItemPreBuilt,
                 result, timer, enqueueCalls, thrown, loaderVars, httpVars, clusterVars, reloadVars, regexpVars, unitVars>>

\* The deferred-rendering promise resolves: _visit returns, the shoebox is
\* written and the finally block runs.
VisitCompletes(v) ==
  /\ pc[v] = "deferred"
  /\ deferred[v] = "resolves"
  /\ result' = [result EXCEPT ![v] = Finally(@)]
  /\ FinallyEffects(v)
  /\ pc' = [pc EXCEPT ![v] = "resolved"]
  /\ UNCHANGED <<configVars, queueMaxSize, vopt, visitResilient, entry, isItemPreBuilt,
                 deferred, thrown, loaderVars, httpVars, clusterVars, gen, appOf, builtFrom, regexpVars, unitVars>>

\* An await of _visit rejects: the catch block and the finally block run.
VisitThrows(v) ==
  /\ pc[v] \in StepNames
  /\ pc[v] = "deferred" => deferred[v] = "rejects"
  /\ result' = [result EXCEPT ![v] = CatchFinally(@, "AppError")]
  /\ FinallyEffects(v)
  /\ pc' = [pc EXCEPT ![v] = "resolved"]
  /\ UNCHANGED <<configVars, queueMaxSize, vopt, visitResilient, entry, isItemPreBuilt,
                 deferred, thrown, loaderVars, httpVars, clusterVars, gen, appOf, builtFrom, regexpVars, unitVars>>

\* The forced-destroy timer, set and not cleared, fires.
TimerFires(v) ==
  /\ timer[v] = "armed"
  /\ result' = [result EXCEPT ![v] = TimerCallback(@)]
  /\ timer' = [timer EXCEPT ![v] = "fired"]
  /\ UNCHANGED <<configVars, poolVars, pc, vopt, visitResilient, entry, isItemPreBuilt,
                 deferred, enqueueCalls, thrown, loaderVars, httpVars, clusterVars, reloadVars, regexpVars, unitVars>>

\* EmberSsr.visit resumes after `await this._app.visit(path, options)`.
OuterSettles(v) ==
  /\ pc[v] \in {"resolved", "rejected"}
  /\ IF pc[v] = "rejected"
       THEN /\ pc' = [pc EXCEPT ![v] = "thrown"]
            /\ UNCHANGED thrown
       ELSE IF ~visitResilient[v] /\ result[v].error # "none"
         THEN /\ pc' = [pc EXCEPT ![v] = "thrown"]
              /\ thrown' = [thrown EXCEPT ![v] = result[v].error]
         ELSE /\ pc' = [pc EXCEPT ![v] = "returned"]
              /\ UNCHANGED thrown
  /\ UNCHANGED <<configVars, poolVars, vopt, visitResilient, entry, isItemPreBuilt,
                 result, timer, deferred, enqueueCalls, loaderVars, httpVars, clusterVars, reloadVars, regexpVars, unitVars>>

Next ==
  \/ \E e \in Entries : BuildSettles(e)
  \/ \E v \in Visits, ro \in ResilientOptions, ms \in DestroyMsValues : StartVisit(v, ro, ms)
  \/ \E v \in Visits : GotSandbox(v)
  \/ \E v \in Visits : GotNoSandbox(v)
  \/ \E v \in Visits, d \in DeferredKinds : StepResolves(v, d)
  \/ \E v \in Visits : VisitCompletes(v)
  \/ \E v \in Visits : VisitThrows(v)
  \/ \E v \in Visits : TimerFires(v)
  \/ \E v \in Visits : OuterSettles(v)

Spec == Init /\ [][Next]_vars

(* ------------------------ the express middleware ----------------------- *)

\* the branch taken when emberSsr.visit resolved with a falsy value: the raw
\* HTML shell is sent with the status left as it is, or only the status is set
MiddlewareNoResult(html) ==
  IF html THEN [NoResponse EXCEPT !.sent = "shell"]
          ELSE [NoResponse EXCEPT !.status = "500"]

\* the statements after a Result was obtained: next(result.error) for a result
\* that carries an error, then the status of the result and the rendered body
MiddlewareResult(r) ==
  [status |-> "result.statusCode", sent |-> "body",
   nextCalls |-> IF r.error # "none" THEN 1 ELSE 0, nextError |-> r.error]

\* the catch block
MiddlewareCatch(error, name) ==
  IF name = "UnrecognizedURLError"
    THEN [NoResponse EXCEPT !.nextCalls = 1]
    ELSE [NoResponse EXCEPT !.status = "500", !.nextCalls = 1, !.nextError = error]

\* The middleware resumes after `await emberSsr.visit(path, visitOptions)`.
\* name is error.name of the error the application threw; the errors the
\* server itself raises are not UnrecognizedURLErrors.
Respond(v, name) ==
  /\ pc[v] \in {"returned", "thrown"}
  /\ thrown[v] # "AppError" => name = "Error"
  /\ response' = [response EXCEPT ![v] =
        IF pc[v] = "thrown" THEN MiddlewareCatch(thrown[v], name)
        ELSE IF ~result[v].exists THEN MiddlewareNoResult(TRUE)
        ELSE MiddlewareResult(result[v])]
  /\ pc' = [pc EXCEPT ![v] = "answered"]
  /\ UNCHANGED <<configVars, poolVars, vopt, visitResilient, entry, isItemPreBuilt,
                 result, timer, deferred, enqueueCalls, thrown, loaderVars, clusterVars, reloadVars, regexpVars, unitVars>>

HttpNext ==
  \/ Next
  \/ \E v \in Visits, name \in ErrorNames : Respond(v, name)

HttpSpec == Init /\ [][HttpNext]_vars

(* -------------------- the module loaders of a sandbox ------------------ *)

\* Sandboxed code calls Ssr.require(moduleName).
Require(m, hostHas) ==
  /\ Cardinality(executed) < MaxLoads
  /\ LET r == sandboxRequire(whitelist, m, hostHas)
     IN /\ executed' = IF r = "loaded"
                         THEN executed \cup {[specifier |-> m, via |-> "require"]}
                         ELSE executed
        /\ loadError' = IF r = "loaded" THEN "none" ELSE r
  /\ UNCHANGED <<configVars, poolVars, visitVars, whitelist, httpVars, clusterVars, reloadVars, regexpVars, unitVars>>

\* Sandboxed code imports a specifier (statically or with import()).
Import(m, fileFound, hostHas) ==
  /\ Cardinality(executed) < MaxLoads
  /\ LET r == link(m, fileFound, hostHas)
     IN /\ executed' = IF r = "loaded"
                         THEN executed \cup {[specifier |-> m, via |-> "import"]}
                         ELSE executed
        /\ loadError' = IF r = "loaded" THEN "none" ELSE r
  /\ UNCHANGED <<configVars, poolVars, visitVars, whitelist, httpVars, clusterVars, reloadVars, regexpVars, unitVars>>

LoaderInit ==
  /\ maxSandboxQueueSize = 1
  /\ artifact = "ok"
  /\ ctorResilient = "absent"
  /\ resilient = ConstructorResilient(ctorResilient)
  /\ queueMaxSize = QueueMaxSize(maxSandboxQueueSize)
  /\ items = buildSandboxQueue(maxSandboxQueueSize)[1]
  /\ entryState = buildSandboxQueue(maxSandboxQueueSize)[2]
  /\ nextId = buildSandboxQueue(maxSandboxQueueSize)[3]
  /\ pc = [v \in Visits |-> "idle"]
  /\ vopt = [v \in Visits |-> [resilient |-> "absent", destroyAppInstanceInMs |-> 0]]
  /\ visitResilient = [v \in Visits |-> FALSE]
  /\ entry = [v \in Visits |-> 0]
  /\ isItemPreBuilt = [v \in Visits |-> FALSE]
  /\ result = [v \in Visits |-> NoResult]
  /\ timer = [v \in Visits |-> "unset"]
  /\ deferred = [v \in Visits |-> "none"]
  /\ enqueueCalls = [v \in Visits |-> 0]
  /\ thrown = [v \in Visits |-> "none"]
  /\ whitelist \in SUBSET WhitelistCandidates
  /\ executed = {}
  /\ loadError = "none"
  /\ response = [v \in Visits |-> NoResponse]
  /\ NoCluster
  /\ FirstApp
  /\ NoHostEntry
  /\ IdleUnits

LoaderNext ==
  \/ \E m \in Specifiers, hostHas \in BOOLEAN : Require(m, hostHas)
  \/ \E m \in Specifiers, fileFound \in BOOLEAN, hostHas \in BOOLEAN : Import(m, fileFound, hostHas)

LoaderSpec == LoaderInit /\ [][LoaderNext]_vars

(* ------------------------------ fairness ------------------------------- *)

\* The event loop runs every continuation whose promise has settled and every
\* timer that is due; nothing obliges a caller to start a visit, and an
\* application promise that never settles enables no step.
Fairness ==
  /\ \A e \in Entries : WF_vars(BuildSettles(e))
  /\ \A v \in Visits :
       /\ WF_vars(GotSandbox(v))
       /\ WF_vars(GotNoSandbox(v))
       /\ WF_vars(\E d \in DeferredKinds : StepResolves(v, d))
       /\ WF_vars(VisitCompletes(v))
       /\ WF_vars(pc[v] = "deferred" /\ VisitThrows(v))
       /\ WF_vars(TimerFires(v))
       /\ WF_vars(OuterSettles(v))

FairSpec == Init /\ [][Next]_vars /\ Fairness

\* The same worker with callers that leave `resilient` to its default, on the
\* instance and on every call.
ColdInit ==
  /\ Init
  /\ ctorResilient = "absent"

ColdNext ==
  \/ \E e \in Entries : BuildSettles(e)
  \/ \E v \in Visits, ms \in DestroyMsValues : StartVisit(v, "absent", ms)
  \/ \E v \in Visits : GotSandbox(v)
  \/ \E v \in Visits : GotNoSandbox(v)
  \/ \E v \in Visits, d \in DeferredKinds : StepResolves(v, d)
  \/ \E v \in Visits : VisitCompletes(v)
  \/ \E v \in Visits : VisitThrows(v)
  \/ \E v \in Visits : TimerFires(v)
  \/ \E v \in Visits : OuterSettles(v)

ColdFairSpec == ColdInit /\ [][ColdNext]_vars /\ Fairness

(* --------------------------- EmberSsr.reload --------------------------- *)

\* EmberSsr.reload: this._app.destroy() does nothing; _buildEmberApp constructs
\* an EmberApp for the artifact found at the new paths, with a queue of its
\* own, and installs it.  When loadConfig throws, the constructor throws and
\* this._app stays the EmberApp it was.
Reload(a, d) ==
  /\ gen < MaxReloads
  /\ IF loadConfigThrows(d)
       THEN UNCHANGED <<artifact, poolVars, gen, entryApp, retired>>
       ELSE LET q == enqueueTimes(maxSandboxQueueSize, <<>>, entryState, nextId,
                                  QueueMaxSize(maxSandboxQueueSize))
            IN /\ retired' = [retired EXCEPT ![gen] = [artifact |-> artifact, items |-> items]]
               /\ gen' = gen + 1
               /\ artifact' = a
               /\ queueMaxSize' = QueueMaxSize(maxSandboxQueueSize)
               /\ items' = q[1]
               /\ entryState' = q[2]
               /\ nextId' = q[3]
               /\ entryApp' = StartedBy(entryApp, nextId, q[3], gen + 1)
  /\ UNCHANGED <<maxSandboxQueueSize, resilient, ctorResilient, visitVars, loaderVars,
                 httpVars, clusterVars, appOf, builtFrom, regexpVars, unitVars>>

\* an EmberSsr made resilient, whose visits set no timer and whose
\* applications settle what they defer
ReloadInit ==
  /\ Init
  /\ ctorResilient = "true"

ReloadNext ==
  \/ \E e \in Entries : BuildSettles(e)
  \/ \E v \in Visits : StartVisit(v, "absent", 0)
  \/ \E v \in Visits : GotSandbox(v)
  \/ \E v \in Visits : GotNoSandbox(v)
  \/ \E v \in Visits : StepResolves(v, "resolves")
  \/ \E v \in Visits : VisitCompletes(v)
  \/ \E v \in Visits : VisitThrows(v)
  \/ \E v \in Visits : OuterSettles(v)
  \/ \E a \in ArtifactKinds, d \in DescriptorKinds : Reload(a, d)

ReloadSpec == ReloadInit /\ [][ReloadNext]_vars

(* ----------------------------- the Worker ------------------------------ *)

\* the EmberApp constructor throws for the SsrPaths it is given
EmberAppThrows(paths) == loadConfigThrows(descriptorAt[paths.ssrPath])

\* an EmberApp was constructed holding the SsrPaths object `ref`
WithNewApp(wk, ref) ==
  [wk EXCEPT !.appRef = ref,
             !.apps = Append(@, [ref |-> ref,
                                 builtWith |-> IF ref = "copy" THEN wk.copy ELSE wk.ssrPaths])]

\* The ViteEmberSsrServer constructor of a worker process and Worker.start():
\* the paths come from the options of the script and the environment of the
\* fork.  Without a path serveHTTP reads this.emberSsr._app of an undefined
\* emberSsr and throws; with a path the EmberSsr constructor copies the paths
\* and builds the EmberApp, which throws when the descriptor cannot be loaded.
\* An exception leaves the process running (process.on('uncaughtException')).
Worker_start(wk, distPath) ==
  LET paths == SsrPaths_setPaths(distPath, wk.env.clientPath, wk.env.ssrPath)
      started == [wk EXCEPT !.ssrPaths = paths]
  IN IF ~paths.hasPath
       THEN [started EXCEPT !.state = "failed", !.bound = TRUE]
     ELSE IF EmberAppThrows(SsrPaths_copy(paths))
       THEN [started EXCEPT !.state = "failed", !.copy = SsrPaths_copy(paths)]
     ELSE WithNewApp([started EXCEPT !.state = "starting", !.bound = TRUE,
                                     !.copy = SsrPaths_copy(paths)], "copy")

\* the paths a reload message leaves in Worker.ssrPaths
ReloadPaths(wk, m) ==
  SsrPaths_setPaths(Null, Or(m.clientPath, wk.ssrPaths.clientPath),
                          Or(m.ssrPath, wk.ssrPaths.ssrPath))

\* Worker.handleMessage.  A reload sets the paths of Worker.ssrPaths in place;
\* EmberSsr.reload then hands that very object to the new EmberApp
\* (SsrPaths.wrap returns an SsrPaths as it is).  Without an EmberSsr, without
\* a path, or when the EmberApp constructor throws, the handler throws after
\* the paths were set and EmberSsr._app stays what it was.
handleMessage(wk, m) ==
  CASE m.event = "reload" ->
         LET moved == [wk EXCEPT !.ssrPaths = ReloadPaths(wk, m), !.reloadedTo = m.sup]
         IN IF wk.appRef = "none" \/ ~moved.ssrPaths.hasPath \/ EmberAppThrows(moved.ssrPaths)
              THEN moved
              ELSE WithNewApp(moved, "worker")
    [] m.event = "error" -> [wk EXCEPT !.error = m.error]
    [] m.event = "shutdown" -> [wk EXCEPT !.state = "exited"]

\* the paths the application a worker serves was given
AppPaths(wk) == IF wk.appRef = "copy" THEN wk.copy ELSE wk.ssrPaths

(* ---------------------------- the supervisor --------------------------- *)

\* buildWorkerEnv
buildWorkerEnv(paths) ==
  IF paths.clientPath # Null /\ paths.ssrPath # Null
    THEN [clientPath |-> paths.clientPath, ssrPath |-> paths.ssrPath]
    ELSE [clientPath |-> Null, ssrPath |-> Null]

\* forkWorker: yields the new <<sup, workers>>
forkWorker(s, ws) ==
  <<[s EXCEPT !.forked = @ + 1],
    [ws EXCEPT ![s.forked + 1] =
       [NoWorker EXCEPT !.state = "forked", !.env = buildWorkerEnv(s.ssrPaths)]]>>

RECURSIVE forkTimes(_, _, _)
forkTimes(i, s, ws) ==
  IF i = 0 THEN <<s, ws>>
  ELSE LET f == forkWorker(s, ws) IN forkTimes(i - 1, f[1], f[2])

\* worker.send(message)
send(wk, m) == [wk EXCEPT !.inbox = Append(@, m)]

\* broadcast: the message goes to every process that is still there
broadcast(ws, m) ==
  [w \in WorkerIds |-> IF ws[w].state \in Alive THEN send(ws[w], m) ELSE ws[w]]

Message(event) ==
  [event |-> event, distPath |-> Null, clientPath |-> Null, ssrPath |-> Null,
   error |-> "none", sup |-> Null]

\* the message of reload(); sup notes, for the claims, the ssrPath the
\* supervisor holds when it sends it
ReloadMessage(s) ==
  [Message("reload") EXCEPT !.distPath = s.distPath, !.sup = s.ssrPaths.ssrPath]

\* initializeApp with a downloader, once download() has settled
initializeApp(s, outcome) ==
  CASE outcome \in Paths -> [s EXCEPT !.ssrPaths = SsrPaths_setPaths(outcome, Null, Null)]
    [] outcome = "AppNotFound" -> s
    [] outcome = "DownloadError" -> [s EXCEPT !.initializationError = "DownloadError"]

\* Promise.all of forkWorkers: the workers whose promises it holds
PromiseRace(s) == \E w \in 1..s.workerCount : w \in s.onlineSeen
PromiseAll(s) == \A w \in 1..s.workerCount : w \in s.onlineSeen

\* the exit handler forks a replacement
RespawnUnlessShutdown(s) == ~s.shutdown
RespawnOnExit(s) == TRUE

quietVars == <<configVars, poolVars, visitVars, loaderVars, httpVars, descriptorAt, reloadVars,
               regexpVars, unitVars>>

\* start() up to the first promise that is not settled
Start ==
  /\ sup.startPc = "new"
  /\ sup' = [sup EXCEPT !.startPc = IF sup.downloader THEN "downloading" ELSE "initialized"]
  /\ UNCHANGED <<workers, quietVars>>

\* downloader.download() of the initializeApp of start() settles
DownloadSettles(outcome) ==
  /\ sup.startPc = "downloading"
  /\ sup' = [initializeApp(sup, outcome) EXCEPT !.startPc = "initialized"]
  /\ UNCHANGED <<workers, quietVars>>

\* .then(() => this.subscribeToNotifier())
SubscribeToNotifier ==
  /\ sup.startPc = "initialized"
  /\ sup' = [sup EXCEPT !.startPc = IF sup.notifier THEN "subscribing" ELSE "subscribed"]
  /\ UNCHANGED <<workers, quietVars>>

\* notifier.subscribe() settles
SubscribeSettles(ok) ==
  /\ sup.startPc = "subscribing"
  /\ sup' = [sup EXCEPT !.startPc = "subscribed",
                        !.subscribed = ok,
                        !.initializationError = IF ok THEN @ ELSE "SubscribeError"]
  /\ UNCHANGED <<workers, quietVars>>

\* .then(() => this.forkWorkers())
ForkWorkers ==
  /\ sup.startPc = "subscribed"
  /\ LET f == forkTimes(sup.workerCount, sup, workers)
     IN /\ sup' = [f[1] EXCEPT !.startPc = "forking"]
        /\ workers' = f[2]
  /\ UNCHANGED quietVars

\* the step after forkWorkers: the initialization error is broadcast
PostFork ==
  /\ sup.startPc = "forking"
  /\ PromiseAll(sup)
  /\ sup' = [sup EXCEPT !.startPc = "done"]
  /\ workers' = IF sup.initializationError # "none"
                  THEN broadcast(workers, [Message("error") EXCEPT
                                             !.error = sup.initializationError])
                  ELSE workers
  /\ UNCHANGED quietVars

\* The notifier calls the callback: initializeApp().then(() => this.reload()).
\* Without a downloader initializeApp is resolved at once.
Notify ==
  /\ sup.subscribed
  /\ sup.notifies < MaxNotifies
  /\ IF sup.downloader
       THEN /\ sup' = [sup EXCEPT !.notifies = @ + 1, !.reinits = @ + 1]
            /\ UNCHANGED workers
       ELSE /\ sup' = [sup EXCEPT !.notifies = @ + 1]
            /\ workers' = broadcast(workers, ReloadMessage(sup))
  /\ UNCHANGED quietVars

\* downloader.download() of a callback's initializeApp settles, reload() follows
ReinitSettles(outcome) ==
  /\ sup.reinits > 0
  /\ sup' = [initializeApp(sup, outcome) EXCEPT !.reinits = @ - 1]
  /\ workers' = broadcast(workers, ReloadMessage(sup'))
  /\ UNCHANGED quietVars

\* stop()
Stop ==
  /\ ~sup.shutdown
  /\ sup.startPc # "new"
  /\ sup' = [sup EXCEPT !.shutdown = TRUE]
  /\ workers' = broadcast(workers, Message("shutdown"))
  /\ UNCHANGED quietVars

\* the 'message' handler of forkWorker sees 'http-online'
SupervisorOnOnline(w) ==
  /\ workers[w].onlineSent
  /\ w \notin sup.onlineSeen
  /\ sup' = [sup EXCEPT !.onlineSeen = @ \cup {w}]
  /\ UNCHANGED <<workers, quietVars>>

\* the 'exit' handler of forkWorker
SupervisorOnExit(w) ==
  /\ workers[w].state = "exited"
  /\ LET reaped == [workers EXCEPT ![w].state = "reaped"]
         f == IF RespawnOnExit(sup) THEN forkWorker(sup, reaped) ELSE <<sup, reaped>>
     IN /\ sup' = f[1]
        /\ workers' = f[2]
  /\ UNCHANGED quietVars

\* the script of a forked process runs
WorkerStarts(w) ==
  /\ workers[w].state = "forked"
  /\ workers' = [workers EXCEPT ![w] = Worker_start(@, sup.distPath)]
  /\ UNCHANGED <<sup, quietVars>>

\* httpServer.serve() resolves: the server listens, 'http-online' is sent
WorkerListening(w) ==
  /\ workers[w].state = "starting"
  /\ workers' = [workers EXCEPT ![w].state = "online", ![w].onlineSent = TRUE]
  /\ UNCHANGED <<sup, quietVars>>

\* The process takes the next message; without a listener it is dropped.
WorkerHandles(w) ==
  /\ workers[w].state \in Alive \ {"forked"}
  /\ workers[w].inbox # <<>>
  /\ LET m == Head(workers[w].inbox)
         taken == [workers[w] EXCEPT !.inbox = Tail(@)]
     IN workers' = [workers EXCEPT ![w] =
                      IF taken.bound THEN handleMessage(taken, m) ELSE taken]
  /\ UNCHANGED <<sup, quietVars>>

\* a worker process dies on its own or is killed
WorkerCrashes(w) ==
  /\ workers[w].state \in Alive
  /\ sup.exits < MaxExits
  /\ workers' = [workers EXCEPT ![w].state = "exited"]
  /\ sup' = [sup EXCEPT !.exits = @ + 1]
  /\ UNCHANGED quietVars

\* the EmberApp side of the process at rest: no visit is made
IdleApp ==
  /\ maxSandboxQueueSize = 1
  /\ artifact = "ok"
  /\ ctorResilient = "absent"
  /\ resilient = ConstructorResilient(ctorResilient)
  /\ queueMaxSize = QueueMaxSize(maxSandboxQueueSize)
  /\ items = buildSandboxQueue(maxSandboxQueueSize)[1]
  /\ entryState = buildSandboxQueue(maxSandboxQueueSize)[2]
  /\ nextId = buildSandboxQueue(maxSandboxQueueSize)[3]
  /\ pc = [v \in Visits |-> "idle"]
  /\ vopt = [v \in Visits |-> [resilient |-> "absent", destroyAppInstanceInMs |-> 0]]
  /\ visitResilient = [v \in Visits |-> FALSE]
  /\ entry = [v \in Visits |-> 0]
  /\ isItemPreBuilt = [v \in Visits |-> FALSE]
  /\ result = [v \in Visits |-> NoResult]
  /\ timer = [v \in Visits |-> "unset"]
  /\ deferred = [v \in Visits |-> "none"]
  /\ enqueueCalls = [v \in Visits |-> 0]
  /\ thrown = [v \in Visits |-> "none"]
  /\ whitelist = {}
  /\ executed = {}
  /\ loadError = "none"
  /\ response = [v \in Visits |-> NoResponse]
  /\ FirstApp

\* the supervisor after its constructor: either paths or a downloader; every
\* directory holds a build of the same application
ClusterInit ==
  /\ IdleApp
  /\ NoHostEntry
  /\ IdleUnits
  /\ \E downloader \in BOOLEAN, notifier \in BOOLEAN, workerCount \in 1..MaxWorkerCount :
       sup = NewSupervisor(downloader, notifier, workerCount)
  /\ workers = [w \in WorkerIds |-> NoWorker]
  /\ \E d \in DescriptorKinds : descriptorAt = [p \in Paths |-> d]

ClusterNext ==
  \/ Start
  \/ \E outcome \in DownloadOutcomes : DownloadSettles(outcome)
  \/ SubscribeToNotifier
  \/ \E ok \in BOOLEAN : SubscribeSettles(ok)
  \/ ForkWorkers
  \/ PostFork
  \/ Notify
  \/ \E outcome \in DownloadOutcomes : ReinitSettles(outcome)
  \/ Stop
  \/ \E w \in WorkerIds : SupervisorOnOnline(w)
  \/ \E w \in WorkerIds : SupervisorOnExit(w)
  \/ \E w \in WorkerIds : WorkerStarts(w)
  \/ \E w \in WorkerIds : WorkerListening(w)
  \/ \E w \in WorkerIds : WorkerHandles(w)
  \/ \E w \in WorkerIds : WorkerCrashes(w)

ClusterSpec == ClusterInit /\ [][ClusterNext]_vars

\* Startup on its own: nothing is published, nobody calls stop() and no
\* process dies.
StartupNext ==
  \/ Start
  \/ \E outcome \in DownloadOutcomes : DownloadSettles(outcome)
  \/ SubscribeToNotifier
  \/ \E ok \in BOOLEAN : SubscribeSettles(ok)
  \/ ForkWorkers
  \/ PostFork
  \/ \E w \in WorkerIds : SupervisorOnOnline(w)
  \/ \E w \in WorkerIds : WorkerStarts(w)
  \/ \E w \in WorkerIds : WorkerListening(w)
  \/ \E w \in WorkerIds : WorkerHandles(w)

\* The event loop of each process runs every continuation whose promise has
\* settled and handles every message that has arrived; the promises of the
\* downloader, of the notifier and of the listening server settle.
StartupFairness ==
  /\ WF_vars(Start)
  /\ WF_vars(\E outcome \in DownloadOutcomes : DownloadSettles(outcome))
  /\ WF_vars(SubscribeToNotifier)
  /\ WF_vars(\E ok \in BOOLEAN : SubscribeSettles(ok))
  /\ WF_vars(ForkWorkers)
  /\ WF_vars(PostFork)
  /\ \A w \in WorkerIds :
       /\ WF_vars(SupervisorOnOnline(w))
       /\ WF_vars(WorkerStarts(w))
       /\ WF_vars(WorkerListening(w))
       /\ WF_vars(WorkerHandles(w))

StartupFairSpec == ClusterInit /\ [][StartupNext]_vars /\ StartupFairness

\* Startup with crashes: a worker process may die at any time, and the
\* supervisor's exit handler runs for every process that died.
CrashNext ==
  \/ StartupNext
  \/ \E w \in WorkerIds : WorkerCrashes(w)
  \/ \E w \in WorkerIds : SupervisorOnExit(w)

CrashFairSpec ==
  /\ ClusterInit
  /\ [][CrashNext]_vars
  /\ StartupFairness
  /\ \A w \in WorkerIds : WF_vars(SupervisorOnExit(w))

(* --------------------- one worker and its messages --------------------- *)

\* the messages of the protocol, as handleMessage reads them
WorkerMessages ==
  {[Message("reload") EXCEPT !.clientPath = c, !.ssrPath = c] : c \in Paths \cup {Null}}
    \cup {[Message("error") EXCEPT !.error = "DownloadError"], Message("shutdown")}

\* a message arrives from the primary process
Receive(m) ==
  /\ workers[1].state \in Alive
  /\ workers[1].received < MaxMessages
  /\ workers' = [workers EXCEPT ![1] = [send(@, m) EXCEPT !.received = @ + 1]]
  /\ UNCHANGED <<sup, quietVars>>

\* a process forked by a supervisor that has paths, or has downloaded some
WorkerInit ==
  /\ IdleApp
  /\ NoHostEntry
  /\ IdleUnits
  /\ \E downloader \in BOOLEAN, p \in Paths :
       LET s == NewSupervisor(downloader, FALSE, 1)
           f == forkWorker(IF downloader THEN initializeApp(s, p) ELSE s,
                           [w \in WorkerIds |-> NoWorker])
       IN /\ sup = [f[1] EXCEPT !.startPc = "forking"]
          /\ workers = f[2]
  /\ descriptorAt \in [Paths -> DescriptorKinds]

WorkerNext ==
  \/ \E m \in WorkerMessages : Receive(m)
  \/ WorkerStarts(1)
  \/ WorkerListening(1)
  \/ WorkerHandles(1)

WorkerSpec == WorkerInit /\ [][WorkerNext]_vars

(* ----------------------- the host allow-list -------------------------- *)

\* ssrServerConfigKeys.hostWhitelist.save, for a list of one entry
Save ==
  /\ savedEntry = Unset
  /\ savedEntry' = serializeRegExp(hostEntry)
  /\ UNCHANGED <<hostEntry, loadedEntry, configVars, poolVars, visitVars, loaderVars,
                 httpVars, clusterVars, reloadVars, unitVars>>

\* ssrServerConfigKeys.hostWhitelist.load of what was saved
Load ==
  /\ savedEntry # Unset
  /\ loadedEntry = Unset
  /\ loadedEntry' = deserializeRegExp(savedEntry)
  /\ UNCHANGED <<hostEntry, savedEntry, configVars, poolVars, visitVars, loaderVars,
                 httpVars, clusterVars, reloadVars, unitVars>>

RegexpInit ==
  /\ IdleApp
  /\ NoCluster
  /\ IdleUnits
  /\ hostEntry \in HostEntries
  /\ savedEntry = Unset
  /\ loadedEntry = Unset

RegexpNext == Save \/ Load

RegexpSpec == RegexpInit /\ [][RegexpNext]_vars

(* ------------------------ writing the shoebox -------------------------- *)

\* the variables of the server proper
serverVars == <<configVars, poolVars, visitVars, loaderVars, httpVars, clusterVars, reloadVars,
                regexpVars, loadingVars>>

\* the server proper at rest
IdleServer ==
  /\ IdleApp
  /\ NoCluster
  /\ NoHostEntry
  /\ NoBuild
  /\ NoResolve

\* `await this._visit(...)` of EmberApp.visit resolves: unless the shoebox is
\* disabled, createShoebox writes it into the document
ShoeboxVisitResolves ==
  /\ shoeboxPc = "rendering"
  /\ body' = IF ~disableShoebox THEN createShoebox(body, shoebox) ELSE body
  /\ shoeboxPc' = "finalized"
  /\ UNCHANGED <<shoebox, disableShoebox, serverVars, hostVars, optionVars, cacheVars>>

\* `await this._visit(...)` rejects: the catch block runs, nothing is written
ShoeboxVisitRejects ==
  /\ shoeboxPc = "rendering"
  /\ shoeboxPc' = "caught"
  /\ UNCHANGED <<shoebox, disableShoebox, body, serverVars, hostVars, optionVars, cacheVars>>

\* a visit whose application has filled the shoebox and is rendering
ShoeboxInit ==
  /\ IdleServer
  /\ NoHostCall
  /\ NoOptions
  /\ NoCache
  /\ shoebox \in Shoeboxes
  /\ disableShoebox \in BOOLEAN
  /\ shoeboxPc = "rendering"
  /\ body = <<>>

ShoeboxNext == ShoeboxVisitResolves \/ ShoeboxVisitRejects

ShoeboxSpec == ShoeboxInit /\ [][ShoeboxNext]_vars

(* ------------------------- validating the host ------------------------- *)

\* Code of the application asks the request for its host.  The descriptor
\* holds the list as writeSsrServerConfigForServer saved it.
CallHost ==
  /\ hostOutcome = Unset
  /\ hostOutcome' = SsrRequest_host([allowList EXCEPT !.entries = SavedWhitelist(@)], hostHeader)
  /\ UNCHANGED <<allowList, hostHeader, serverVars, shoeboxVars, optionVars, cacheVars>>

HostInit ==
  /\ IdleServer
  /\ NoShoebox
  /\ NoOptions
  /\ NoCache
  /\ allowList \in AllowLists
  /\ hostHeader \in HostHeaders
  /\ hostOutcome = Unset

HostNext == CallHost

HostSpec == HostInit /\ [][HostNext]_vars

(* ------------------------ resolving the options ------------------------ *)

\* new ViteEmberSsrServer(options), as far as one option goes
Construct ==
  /\ resolved = "unset"
  /\ resolved' = ResolveOption(optionName, optionValue, envValue, optionDefault)
  /\ UNCHANGED <<optionName, optionValue, optionDefault, envValue, serverVars, shoeboxVars,
                 hostVars, cacheVars>>

OptionInit ==
  /\ IdleServer
  /\ NoShoebox
  /\ NoHostCall
  /\ NoCache
  /\ optionName \in OptionNames
  /\ optionValue \in OptionValues
  /\ optionDefault \in OptionDefaults
  /\ envValue \in EnvValues
  /\ resolved = "unset"

OptionNext == Construct

OptionSpec == OptionInit /\ [][OptionNext]_vars

(* --------------------- the cache and the render middleware ------------- *)

otherThanCache == <<serverVars, shoeboxVars, hostVars, optionVars>>

\* a GET request reaches the cache middleware, which calls cache.fetch
CacheRequest(r) ==
  /\ reqPc[r] = "idle"
  /\ reqPc' = [reqPc EXCEPT ![r] = "fetching"]
  /\ UNCHANGED <<chunkedResponse, cacheHas, sendPatched, visitCalls, putCalls, served,
                 otherThanCache>>

\* cache.fetch settles.  A hit is sent; a miss patches res.send and calls
\* next(); a rejection calls next().  next() runs the render middleware up to
\* its await of emberSsr.visit.
FetchSettles(r, outcome) ==
  /\ reqPc[r] = "fetching"
  /\ outcome = "hit" => cacheHas
  /\ IF outcome = "hit"
       THEN /\ served' = [served EXCEPT ![r] = "cached"]
            /\ reqPc' = [reqPc EXCEPT ![r] = "hit"]
            /\ UNCHANGED <<sendPatched, visitCalls>>
       ELSE /\ sendPatched' = [sendPatched EXCEPT ![r] = (outcome = "miss")]
            /\ visitCalls' = [visitCalls EXCEPT ![r] = @ + 1]
            /\ reqPc' = [reqPc EXCEPT ![r] = outcome]
            /\ UNCHANGED served
  /\ UNCHANGED <<chunkedResponse, cacheHas, putCalls, otherThanCache>>

\* emberSsr.visit settles and the render middleware runs to its end.  A call
\* of the patched res.send sends, hands the body to cache.put and restores
\* res.send; stored tells whether the promise of cache.put resolves.
RenderSettles(r, outcome, stored) ==
  /\ reqPc[r] \in {"miss", "rejects"}
  /\ served[r] = "nothing"
  /\ LET w == MiddlewareWrites(chunkedResponse, outcome)
         intercepted == w.method = "send" /\ sendPatched[r]
     IN /\ served' = [served EXCEPT ![r] = outcome]
        /\ putCalls' = [putCalls EXCEPT ![r] = IF intercepted THEN Append(@, w.body) ELSE @]
        /\ sendPatched' = [sendPatched EXCEPT ![r] = IF intercepted THEN FALSE ELSE @]
        /\ cacheHas' = (cacheHas \/ (intercepted /\ stored))
  /\ UNCHANGED <<chunkedResponse, reqPc, visitCalls, otherThanCache>>

CacheInit ==
  /\ IdleServer
  /\ NoShoebox
  /\ NoHostCall
  /\ NoOptions
  /\ chunkedResponse \in BOOLEAN
  /\ cacheHas \in BOOLEAN
  /\ reqPc = [r \in Requests |-> "idle"]
  /\ sendPatched = [r \in Requests |-> FALSE]
  /\ visitCalls = [r \in Requests |-> 0]
  /\ putCalls = [r \in Requests |-> <<>>]
  /\ served = [r \in Requests |-> "nothing"]

CacheNext ==
  \/ \E r \in Requests : CacheRequest(r)
  \/ \E r \in Requests, outcome \in FetchOutcomes : FetchSettles(r, outcome)
  \/ \E r \in Requests, outcome \in RenderOutcomes, stored \in BOOLEAN :
       RenderSettles(r, outcome, stored)

CacheSpec == CacheInit /\ [][CacheNext]_vars

(* ------------------------ buildApp, script by script ------------------- *)

\* the files of the artifact; a file imports only files of a higher number,
\* so that the import graph has no cycle
Files == 1..MaxFiles

\* this.scripts: one or two entry scripts, possibly with a falsy entry
ScriptLists == {<<1>>, <<1, 2>>, <<2, 1>>, <<0, 1>>}

\* the import declarations of each file, resolved
ImportGraphs ==
  {[f \in Files |-> CASE f = 1 -> i1 [] f = 2 -> i2 [] OTHER -> <<>>] :
     i1 \in {<<>>, <<3>>, <<2, 3>>}, i2 \in {<<>>, <<3>>}}

\* The link function of buildLink, called for an import that resolves to
\* file f: buildScript makes a new SourceTextModule and links it, which calls
\* link for each of its imports; then the new module is evaluated.  The
\* imports of one module are followed in the order of their declarations.
\* log: the evaluate() calls made, in order; ok: the promise was fulfilled.
RECURSIVE linkModule(_, _, _)
RECURSIVE linkRequests(_, _, _, _)
linkModule(io, th, f) ==
  LET linked == linkRequests(io, th, io[f], 1)
  IN IF ~linked.ok THEN linked
     ELSE [log |-> Append(linked.log, f), ok |-> f \notin th]

\* module.link(link): link is called for every import of the module
linkRequests(io, th, reqs, i) ==
  IF i > Len(reqs) THEN [log |-> <<>>, ok |-> TRUE]
  ELSE LET first == linkModule(io, th, reqs[i])
           rest == linkRequests(io, th, reqs, i + 1)
       IN IF ~first.ok THEN first
          ELSE [log |-> first.log \o rest.log, ok |-> rest.ok]

\* buildScript for an entry script: the module is made and linked
buildScript(io, th, f) == linkRequests(io, th, io[f], 1)

\* One pass of the loop of buildApp over this.scripts, for the script f.
\* outcome: "rejected" when buildScript rejects (outside the try), "null"
\* when module.evaluate() throws (the catch block returns null), "continue"
\* otherwise; factory: createSsrApp after `??=`.
loopBodySwallows(io, th, ex, f, factory) ==
  IF f = 0 THEN [log |-> <<>>, outcome |-> "continue", factory |-> factory]
  ELSE LET linked == buildScript(io, th, f)
       IN IF ~linked.ok
            THEN [log |-> linked.log, outcome |-> "continue", factory |-> factory]
          ELSE [log |-> Append(linked.log, f), outcome |-> "continue",
                factory |-> factory \/ (f \notin th /\ f \in ex)]
loopBody(io, th, ex, f, factory) ==
  IF f = 0 THEN [log |-> <<>>, outcome |-> "continue", factory |-> factory]
  ELSE LET linked == buildScript(io, th, f)
       IN IF ~linked.ok
            THEN [log |-> linked.log, outcome |-> "rejected", factory |-> factory]
          ELSE IF f \in th
            THEN [log |-> Append(linked.log, f), outcome |-> "null", factory |-> factory]
          ELSE [log |-> Append(linked.log, f), outcome |-> "continue",
                factory |-> factory \/ f \in ex]

\* what the scripts of an artifact do, in the terms of ArtifactKinds
RECURSIVE ArtifactKindFrom(_, _, _, _, _, _)
ArtifactKindFrom(sl, io, th, ex, i, factory) ==
  IF i > Len(sl) THEN (IF factory THEN "ok" ELSE "noFactory")
  ELSE LET pass == loopBody(io, th, ex, sl[i], factory)
       IN CASE pass.outcome = "rejected" -> "linkFails"
            [] pass.outcome = "null" -> "scriptThrows"
            [] OTHER -> ArtifactKindFrom(sl, io, th, ex, i + 1, pass.factory)

\* the listener of 'unhandledRejection' (and of 'uncaughtException') that the
\* process installs: it logs, and the process runs on
onUnhandledRejection(isRunning) == isRunning

otherThanBuild == <<configVars, queueMaxSize, items, nextId, visitVars, loaderVars, httpVars,
                    clusterVars, gen, appOf, entryApp, retired, regexpVars, shoeboxVars,
                    hostVars, optionVars, cacheVars, resolveVars>>

\* the promise of buildApp settles
Settle(e, state) ==
  /\ entryState' = [entryState EXCEPT ![e] = state]
  /\ builtFrom' = [builtFrom EXCEPT ![e] = ScriptsOf(e)]
  /\ building' = 0

\* the microtask of buildNewApplicationInstance runs: buildApp makes the
\* context and enters its loop
BeginBuild(e) ==
  /\ building = 0
  /\ entryState[e] = "pending"
  /\ building' = e
  /\ scriptIndex' = 1
  /\ createSsrApp' = FALSE
  /\ evaluated' = <<>>
  /\ failedAt' = 0
  /\ UNCHANGED <<scriptList, importsOf, throwing, exporting, appsCreated, reported, running,
                 entryState, builtFrom, otherThanBuild>>

\* one pass of the loop of buildApp
EvaluateScript ==
  /\ building # 0
  /\ scriptIndex <= Len(scriptList)
  /\ LET pass == loopBody(importsOf, throwing, exporting, scriptList[scriptIndex], createSsrApp)
     IN /\ evaluated' = evaluated \o pass.log
        /\ createSsrApp' = pass.factory
        /\ IF pass.outcome = "continue"
             THEN /\ scriptIndex' = scriptIndex + 1
                  /\ UNCHANGED <<failedAt, entryState, builtFrom, building>>
             ELSE /\ failedAt' = scriptIndex
                  /\ Settle(building, pass.outcome)
                  /\ UNCHANGED scriptIndex
  /\ UNCHANGED <<scriptList, importsOf, throwing, exporting, appsCreated, reported, running,
                 otherThanBuild>>

\* after the loop: null without a factory, else the application is created
CreateApp ==
  /\ building # 0
  /\ scriptIndex > Len(scriptList)
  /\ Settle(building, IF createSsrApp THEN "sandbox" ELSE "null")
  /\ appsCreated' = IF createSsrApp THEN appsCreated + 1 ELSE appsCreated
  /\ UNCHANGED <<scriptList, importsOf, throwing, exporting, scriptIndex, createSsrApp,
                 evaluated, failedAt, reported, running, otherThanBuild>>

\* a build that rejected while no visit awaited it: the process emits
\* 'unhandledRejection'
UnhandledRejection(e) ==
  /\ running
  /\ entryState[e] = "rejected"
  /\ e \notin reported
  /\ \A v \in Visits : entry[v] # e
  /\ reported' = reported \cup {e}
  /\ running' = onUnhandledRejection(running)
  /\ UNCHANGED <<scriptList, importsOf, throwing, exporting, building, scriptIndex,
                 createSsrApp, evaluated, failedAt, appsCreated, entryState, builtFrom,
                 otherThanBuild>>

\* a worker whose artifact has the given scripts and imports
BuildInit ==
  /\ maxSandboxQueueSize \in 1..MaxQueueSize
  /\ ctorResilient = "absent"
  /\ NewWorker
  /\ NoShoebox
  /\ NoHostCall
  /\ NoOptions
  /\ NoCache
  /\ NoResolve
  /\ scriptList \in ScriptLists
  /\ importsOf \in ImportGraphs
  /\ throwing \in SUBSET Files
  /\ exporting \in {{}, {1}, {2}}
  /\ artifact = ArtifactKindFrom(scriptList, importsOf, throwing, exporting, 1, FALSE)
  /\ building = 0
  /\ scriptIndex = 1
  /\ createSsrApp = FALSE
  /\ evaluated = <<>>
  /\ failedAt = 0
  /\ appsCreated = 0
  /\ reported = {}
  /\ running = TRUE

\* the builds, and the visits up to the sandbox they are handed
BuildNext ==
  \/ \E e \in Entries : BeginBuild(e)
  \/ EvaluateScript
  \/ CreateApp
  \/ \E e \in Entries : UnhandledRejection(e)
  \/ \E v \in Visits : running /\ StartVisit(v, "absent", 0)
  \/ \E v \in Visits : running /\ GotSandbox(v)
  \/ \E v \in Visits : running /\ GotNoSandbox(v)
  \/ \E v \in Visits : running /\ OuterSettles(v)
  \/ \E v \in Visits : running /\ Respond(v, "Error")

BuildSpec == BuildInit /\ [][BuildNext]_vars

(* ----------------------- resolving an import path ---------------------- *)

\* the attempts of resolveImport, in order: the resolved path itself, the
\* file index.js under it, the path with .mjs, the path with .js
attempts == <<"path", "path/index.js", "path.mjs", "path.js">>

\* what statSync(attemptPath, { throwIfNoEntry: false }) finds
StatKinds == {"none", "file", "directory"}

\* the loop over the attempts: the first one that is a regular file
RECURSIVE resolveAttemptsAnyEntry(_, _)
resolveAttemptsAnyEntry(stats, i) ==
  IF i > Len(attempts) THEN "undefined"
  ELSE IF stats[i] # "none" THEN attempts[i]
  ELSE resolveAttemptsAnyEntry(stats, i + 1)
RECURSIVE resolveAttempts(_, _)
resolveAttempts(stats, i) ==
  IF i > Len(attempts) THEN "undefined"
  ELSE IF stats[i] = "file" THEN attempts[i]
  ELSE resolveAttempts(stats, i + 1)

\* require.resolve(specifier): the host's resolution, which throws when it
\* finds nothing
requireResolve(hostFinds) == IF hostFinds THEN "host" ELSE "MODULE_NOT_FOUND"

\* resolveImport, by what it finds
resolveImportPath(relative, stats, hostFinds) ==
  IF ~relative THEN requireResolve(hostFinds)
  ELSE LET found == resolveAttempts(stats, 1)
       IN IF found # "undefined" THEN found ELSE requireResolve(hostFinds)

\* link calls resolveImport for a specifier
ResolveImport ==
  /\ foundPath = "unset"
  /\ foundPath' = resolveImportPath(specifierRelative, candidateStats, hostResolves)
  /\ UNCHANGED <<candidateStats, specifierRelative, hostResolves, configVars, poolVars,
                 visitVars, loaderVars, httpVars, clusterVars, reloadVars, regexpVars,
                 buildVars, shoeboxVars, hostVars, optionVars, cacheVars>>

\* a specifier, and a file system around the importing file
ResolveInit ==
  /\ IdleApp
  /\ NoCluster
  /\ NoHostEntry
  /\ NoBuild
  /\ NoShoebox
  /\ NoHostCall
  /\ NoOptions
  /\ NoCache
  /\ candidateStats \in [1..Len(attempts) -> StatKinds]
  /\ specifierRelative \in BOOLEAN
  /\ hostResolves \in BOOLEAN
  /\ foundPath = "unset"

ResolveNext == ResolveImport

ResolveSpec == ResolveInit /\ [][ResolveNext]_vars

(* ------------------------------- claims -------------------------------- *)

InnerSettled(v) == pc[v] \in {"resolved", "rejected", "returned", "thrown", "answered"}
ObtainedSandbox(v) == result[v].exists
Dequeued(v) == entry[v] # 0

\* elements of a sequence
Range(seq) == {seq[i] : i \in 1..Len(seq)}

\* C1: no two visits, in flight or completed, were handed the same pool
\* entry; the entry a visit was handed is never in the pool again; and the
\* application of a sandbox whose visit has returned has been destroyed.
C1_SandboxExclusive ==
  /\ \A v, w \in Visits : (v # w /\ Dequeued(v) /\ Dequeued(w)) => entry[v] # entry[w]
  /\ \A v \in Visits : Dequeued(v) => entry[v] \notin Range(items)
  /\ \A i, j \in 1..Len(items) : i # j => items[i] # items[j]
  /\ \A v \in Visits : (ObtainedSandbox(v) /\ InnerSettled(v)) => result[v].appDestroys >= 1

\* C1 witness: two visits ran concurrently on sandboxes, one has returned and
\* its replacement build is in the pool while the other is still rendering.
C1_Witness ==
  \E v, w \in Visits :
    /\ v # w
    /\ ObtainedSandbox(v) /\ pc[v] = "resolved" /\ result[v].isDestroyed
    /\ ObtainedSandbox(w) /\ pc[w] \in StepNames
    /\ Len(items) >= 1

\* C2: every visit that dequeued has, once its promise settled, called
\* enqueue exactly once.
C2_OneReplacementPerVisit ==
  \A v \in Visits : (Dequeued(v) /\ InnerSettled(v)) => enqueueCalls[v] = 1

\* the visits that have been started
Started == {v \in Visits : pc[v] # "idle"}

\* C3: once exactly maxSandboxQueueSize visits have been started and all of
\* them have run to their end, the pool holds maxSandboxQueueSize entries.
C3_SelfStabilizing ==
  (Cardinality(Started) = maxSandboxQueueSize /\ \A v \in Started : InnerSettled(v))
    => Len(items) = maxSandboxQueueSize

\* C4: the pool never holds more than maxSandboxQueueSize entries.
C4_PoolBounded == Len(items) <= maxSandboxQueueSize

\* C4 witness: more visits than the pool holds entries ran concurrently, one
\* of them on a cold build, and all have scheduled their replacement.
C4_Witness ==
  /\ Cardinality(Started) > maxSandboxQueueSize
  /\ \E v \in Started : ~isItemPreBuilt[v] /\ ObtainedSandbox(v)
  /\ \A v \in Started : pc[v] = "resolved" /\ enqueueCalls[v] = 1
  /\ Len(items) = maxSandboxQueueSize

\* C5: a visit with a forced-destroy timer that waits on a deferred-rendering
\* promise which never resolves eventually resolves with the
\* forced-destruction error.
C5_ForcedDestroyBoundsVisit ==
  \A v \in Visits :
    (pc[v] = "deferred" /\ deferred[v] = "never" /\ vopt[v].destroyAppInstanceInMs > 0)
      ~> (InnerSettled(v) /\ result[v].error = "Forced")

\* C6: the application of a visit is destroyed at most once, and a result
\* bears the forced-destruction error only if the timer fired.
C6_DestroyedAtMostOnce ==
  \A v \in Visits :
    /\ result[v].appDestroys <= 1
    /\ result[v].error = "Forced" => timer[v] = "fired"
    /\ timer[v] = "fired" => result[v].isDestroyed

\* C6 witness: the timer destroyed the application and the finally block then
\* ran its own destruction.
C6_Witness ==
  \E v \in Visits :
    /\ timer[v] = "fired" /\ pc[v] = "resolved"
    /\ result[v].finalized /\ result[v].appDestroys = 1

\* C7: a visit that obtained a sandbox never rejects, and when its promise
\* has settled the result is finalized and the application destroyed,
\* whatever await of _visit failed.
C7_TeardownOnError ==
  \A v \in Visits :
    ObtainedSandbox(v) =>
      /\ pc[v] # "rejected"
      /\ InnerSettled(v) => (result[v].finalized /\ result[v].isDestroyed
                              /\ result[v].appDestroys = 1)

\* C7 witness: an await of _visit failed and the visit has resolved.
C7_Witness ==
  \E v \in Visits : pc[v] = "resolved" /\ result[v].error = "AppError"

\* what the claim says the resilient setting of a visit is
ClaimedResilient(v) ==
  IF vopt[v].resilient # "absent" THEN vopt[v].resilient = "true" ELSE resilient

\* C8: a visit on a sandbox whose result carries an error returns the result
\* in resilient mode and throws that very error otherwise, and throws only
\* after the result was finalized, the application destroyed and the
\* replacement scheduled; the option of the visit overrides the instance's.
C8_FailurePolicy ==
  \A v \in Visits :
    ObtainedSandbox(v) =>
      /\ pc[v] = "returned" => (result[v].error = "none" \/ ClaimedResilient(v))
      /\ pc[v] = "thrown" =>
           /\ ~ClaimedResilient(v)
           /\ result[v].error # "none" /\ thrown[v] = result[v].error
           /\ result[v].finalized /\ result[v].isDestroyed /\ enqueueCalls[v] = 1

\* C8 witness: the instance is resilient, the visit is called with
\* resilient: false, an await failed and the error was thrown to the caller.
C8_Witness ==
  \E v \in Visits :
    /\ resilient /\ vopt[v].resilient = "false"
    /\ pc[v] = "thrown" /\ thrown[v] = "AppError"

\* a visit on a sandbox, with no resilient option on the instance or the call,
\* in which an await of _visit failed, and which has answered its caller
DefaultedFailedVisit(v) ==
  /\ ctorResilient = "absent" /\ vopt[v].resilient = "absent"
  /\ ObtainedSandbox(v) /\ result[v].error = "AppError"
  /\ pc[v] \in {"returned", "thrown"}

\* C9 as stated: with no resilient option anywhere, a visit whose boot or
\* render throws resolves with the result carrying the error.
C9_ResilientByDefault ==
  \A v \in Visits : DefaultedFailedVisit(v) => pc[v] = "returned"

\* C9 amended: with no resilient option anywhere, a visit whose boot or render
\* throws rejects with that error.
C9_NonResilientByDefault ==
  \A v \in Visits :
    DefaultedFailedVisit(v) => (pc[v] = "thrown" /\ thrown[v] = "AppError")

\* C9 witness: such a visit has rejected.
C9_Witness ==
  \E v \in Visits : DefaultedFailedVisit(v) /\ pc[v] = "thrown"

\* specifier does not start with '.'
IsBare(specifier) == ~startsWithDot(specifier)

\* C10: every bare specifier whose module was resolved and run, by require
\* or by import, has its package in the whitelist.
C10_BareSpecifiersWhitelisted ==
  \A m \in executed : IsBare(m.specifier) => getPackageName(m.specifier) \in whitelist
(* C11: with an artifact whose scripts export no application factory, a visit
   resolves without a sandbox instead of rejecting, and the middleware answers
   it by sending the raw HTML shell with status 500. *)
C11_NoSandboxServesShell ==
  \A v \in Visits :
    artifact = "noFactory" =>
      /\ pc[v] # "thrown"
      /\ pc[v] = "answered" =>
            /\ response[v].sent = "shell"
            /\ response[v].status = "500"
            /\ response[v].nextCalls = 0

\* the workers forked by forkWorkers
StartupWorkers == 1..sup.workerCount

\* a post-fork step of start() has run
PostForkRan ==
  \/ sup.startPc = "done"
  \/ \E w \in WorkerIds :
       \/ workers[w].error # "none"
       \/ \E i \in 1..Len(workers[w].inbox) : workers[w].inbox[i].event = "error"

(* C12: start() completes, and runs its post-fork step, only after every
   worker forked by forkWorkers has sent 'http-online' and the supervisor has
   handled that message. *)
C12_StartupGate ==
  PostForkRan =>
    \A w \in StartupWorkers : workers[w].onlineSent /\ w \in sup.onlineSeen

C12_Witness ==
  /\ sup.startPc = "done"
  /\ sup.workerCount = 2
  /\ sup.initializationError # "none"

\* processes the supervisor holds: running, or gone with the exit handler still to run
Supervised == {w \in WorkerIds : workers[w].state \in Alive \cup {"exited"}}
Reaped == {w \in WorkerIds : workers[w].state = "reaped"}

(* C13: every worker exit, whatever its cause, makes the supervisor fork
   exactly one replacement, so that once the exit handlers have run the number
   of worker processes is workerCount again. *)
C13_CrashRecovery ==
  sup.startPc \in {"forking", "done"} =>
    /\ sup.forked = sup.workerCount + Cardinality(Reaped)
    /\ Cardinality(Supervised) = sup.workerCount
    /\ \A w \in WorkerIds : w <= sup.forked <=> workers[w].state # "none"

C13_Witness ==
  /\ sup.workerCount = 2
  /\ Cardinality(Reaped) = 2
  /\ \E w \in Reaped : ~workers[w].onlineSent
  /\ Cardinality({w \in WorkerIds : workers[w].state \in Alive}) = 2

(* C14: once stop() has broadcast 'shutdown', the exit of a worker makes the
   supervisor fork no replacement. *)
C14_NoRespawnAfterShutdown ==
  [][\A w \in WorkerIds :
       (sup.shutdown /\ workers[w].state = "exited" /\ workers'[w].state = "reaped")
         => sup'.forked = sup.forked]_vars

(* C15: a worker that has handled a reload holds the paths the supervisor held
   when it broadcast that reload, and serves an application built from them. *)
C15_ReloadCarriesPaths ==
  \A w \in WorkerIds :
    workers[w].reloadedTo # Null =>
      /\ workers[w].ssrPaths.ssrPath = workers[w].reloadedTo
      /\ workers[w].appRef # "none" => AppPaths(workers[w]).ssrPath = workers[w].reloadedTo

(* C19: with a missing or malformed descriptor at the configured path the
   supervisor forks no worker. *)
C19_BadDescriptorForksNothing ==
  (~sup.downloader /\ loadConfigThrows(descriptorAt[sup.ssrPaths.ssrPath])) =>
    sup.forked = 0

(* C18: when the download or the subscription has failed and the workers are
   forked, every one of them eventually holds the failure in its error field. *)
C18_ErrorReachesWorkers ==
  (sup.startPc = "forking" /\ sup.initializationError # "none")
    ~> (\A w \in StartupWorkers : workers[w].error = sup.initializationError)

\* the paths an EmberApp reads through the SsrPaths object it holds
SeenBy(wk, app) == IF app.ref = "copy" THEN wk.copy ELSE wk.ssrPaths

(* C17: every application object a worker has built still sees the client and
   ssr paths it was built with, whatever reloads were handled since. *)
C17_ArtifactNeverMutated ==
  \A w \in WorkerIds : \A i \in 1..Len(workers[w].apps) :
    LET app == workers[w].apps[i]
    IN /\ SeenBy(workers[w], app).clientPath = app.builtWith.clientPath
       /\ SeenBy(workers[w], app).ssrPath = app.builtWith.ssrPath

\* visit v ran its finally block in this step
RanFinally(v) == enqueueCalls'[v] > enqueueCalls[v]

(* C16: a sandbox handed to a visit was built from the artifact of the
   application that was installed when the visit was started, also when a
   reload was processed while the visit awaited it; and the finally block of
   a visit started before a reload leaves the pool of the installed
   application as it is. *)
C16_ReloadKeepsPools ==
  /\ [](\A v \in Visits :
          (Dequeued(v) /\ entryState[entry[v]] \notin {"none", "pending"})
            => /\ builtFrom[entry[v]] = appOf[v]
               /\ entryApp[entry[v]] = appOf[v])
  /\ [][\A v \in Visits : (RanFinally(v) /\ appOf[v] < gen) => items' = items]_vars

\* the reload was processed while the dequeue of a visit was in flight (its
\* build has not settled), and a visit started after it has its sandbox
C16_Witness ==
  /\ gen = 1
  /\ \E v \in Visits : appOf[v] = 0 /\ pc[v] = "awaitItem" /\ entryState[entry[v]] = "pending"
  /\ \E v \in Visits : appOf[v] = 1 /\ result[v].exists /\ builtFrom[entry[v]] = 1

(* C20: a regular expression whose pattern does not contain the delimiter is
   saved and loaded back as a regular expression with the same source and
   flags; an entry that is not a regular expression is saved unchanged; a
   string that is not an encoding is loaded unchanged. *)
C20_RegExpRoundTrip ==
  /\ (savedEntry # Unset /\ hostEntry.type # "RegExp") => savedEntry = hostEntry
  /\ (loadedEntry # Unset /\ ~matchesSerializedRegExp(savedEntry).matched)
       => loadedEntry = savedEntry
  /\ (loadedEntry # Unset /\ hostEntry.type = "RegExp") => loadedEntry = hostEntry

\* what JSON.parse makes of the four characters after \u
DecodeHex(quad) ==
  CASE quad = <<"0", "0", "2", "6">> -> "&"
    [] quad = <<"0", "0", "3", "e">> -> ">"
    [] quad = <<"0", "0", "3", "c">> -> "<"
    [] quad = <<"2", "0", "2", "8">> -> "U+2028"
    [] quad = <<"2", "0", "2", "9">> -> "U+2029"
    [] OTHER -> "U+????"

ParseError == [ok |-> FALSE]

\* JSON.parse from position i, which follows the opening quotation mark
RECURSIVE ParseStringFrom(_, _, _)
ParseStringFrom(t, i, acc) ==
  IF i > Len(t) THEN ParseError
  ELSE IF t[i] = "\"" THEN [ok |-> TRUE, value |-> JSONString(acc), next |-> i + 1]
  ELSE IF t[i] = "\\"
    THEN IF i + 1 > Len(t) THEN ParseError
         ELSE IF t[i + 1] \in {"\"", "\\"} THEN ParseStringFrom(t, i + 2, Append(acc, t[i + 1]))
         ELSE IF t[i + 1] = "u" /\ i + 5 <= Len(t)
           THEN ParseStringFrom(t, i + 6, Append(acc, DecodeHex(SubSeq(t, i + 2, i + 5))))
         ELSE ParseError
  ELSE ParseStringFrom(t, i + 1, Append(acc, t[i]))

\* JSON.parse of the value that starts at position i
RECURSIVE ParseValueFrom(_, _)
RECURSIVE ParseItemsFrom(_, _, _)
ParseValueFrom(t, i) ==
  IF i > Len(t) THEN ParseError
  ELSE IF t[i] = "\"" THEN ParseStringFrom(t, i + 1, <<>>)
  ELSE IF t[i] = "[" THEN
    (IF i + 1 <= Len(t) /\ t[i + 1] = "]"
       THEN [ok |-> TRUE, value |-> JSONArray(<<>>), next |-> i + 2]
       ELSE ParseItemsFrom(t, i + 1, <<>>))
  ELSE IF i + 3 <= Len(t) /\ SubSeq(t, i, i + 3) = <<"n", "u", "l", "l">>
    THEN [ok |-> TRUE, value |-> JSONNull, next |-> i + 4]
  ELSE ParseError

ParseItemsFrom(t, i, acc) ==
  LET item == ParseValueFrom(t, i)
  IN IF ~item.ok \/ item.next > Len(t) THEN ParseError
     ELSE IF t[item.next] = "," THEN ParseItemsFrom(t, item.next + 1, Append(acc, item.value))
     ELSE IF t[item.next] = "]"
       THEN [ok |-> TRUE, value |-> JSONArray(Append(acc, item.value)), next |-> item.next + 1]
     ELSE ParseError

\* JSON.parse, as the browser applies it to the text of a shoebox block
JSONParse(t) ==
  LET parsed == ParseValueFrom(t, 1)
  IN IF parsed.ok /\ parsed.next = Len(t) + 1 THEN parsed.value ELSE ParseError

\* the blocks written for a key
BlocksOf(key) == {i \in 1..Len(body) : body[i].id = key}

(* C21: the text of every shoebox block contains none of < > & U+2028 U+2029
   and JSON-parses to the value stored under the block's key; a visit that
   resolved with the shoebox enabled has written exactly one block per own key
   and none for an inherited key; with the shoebox disabled nothing is
   written. *)
C21_ShoeboxEscaping ==
  /\ \A i \in 1..Len(body) :
       /\ \A j \in 1..Len(body[i].text) :
            body[i].text[j] \notin {"<", ">", "&", "U+2028", "U+2029"}
       /\ body[i].id \in DOMAIN shoebox.own
       /\ JSONParse(body[i].text) = shoebox.own[body[i].id]
  /\ shoeboxPc = "finalized" =>
       IF disableShoebox
         THEN body = <<>>
         ELSE \A k \in {"k1", "k2"} :
                Cardinality(BlocksOf(k)) = IF k \in DOMAIN shoebox.own THEN 1 ELSE 0

\* two own keys and an inherited one, values that need escaping
C21_Witness ==
  /\ shoeboxPc = "finalized"
  /\ Len(body) = 2
  /\ shoebox.inherited # {}
  /\ shoebox.own["k1"] = JSONString(<<"<">>)
  /\ shoebox.own["k2"] = JSONString(<<"U+2028">>)

\* the header equals a literal entry of the list or a regular expression of
\* the list matches it
Allowed(list, host) ==
  \E i \in 1..Len(list.entries) :
    IF list.entries[i].type = "RegExp"
      THEN RegExpTest(list.entries[i], host)
      ELSE list.entries[i].chars = host

(* C22: host() returns the Host header if and only if the header equals a
   literal entry of the allow-list or is matched by a regular expression of
   it; otherwise, and without an allow-list, it throws. *)
C22_HostValidation ==
  hostOutcome # Unset =>
    IF allowList.defined /\ Allowed(allowList, hostHeader)
      THEN hostOutcome = [type |-> "returned", host |-> hostHeader]
      ELSE hostOutcome.type = "thrown"

\* the environment variable of the option is set
EnvSet == optionName \in envs /\ envValue # "undefined"

(* C23: an option passed explicitly, false and 0 included, is the value the
   server uses; an option not passed takes the value of its environment
   variable when that is set, and its default otherwise. *)
C23_ExplicitOptionWins ==
  resolved # "unset" =>
    resolved = IF optionValue \notin Nullish THEN optionValue
               ELSE IF EnvSet THEN envValue
               ELSE combinedDefaultOptions(optionName, optionDefault)

(* C24: a request that missed the cache and for which the visit produced a
   result has handed the whole body to cache.put exactly once, in the
   single-string and in the chunked mode; a request that hit the cache has not
   called visit. *)
C24_MissPutsBodyOnce ==
  \A r \in Requests :
    /\ (reqPc[r] = "miss" /\ served[r] \in {"result", "resultWithError"})
         => putCalls[r] = <<"body">>
    /\ reqPc[r] = "hit" => visitCalls[r] = 0

\* visit v dequeues in this step
Dequeues(v) == entry[v] = 0 /\ entry'[v] # 0

\* visit v dequeued from an empty pool and awaits the build started for it
AwaitsColdBuild(v) == pc[v] = "awaitItem" /\ ~isItemPreBuilt[v]

(* C25: a visit that dequeues from an empty pool is handed a build started by
   that very dequeue and marked as not pre-built, a visit that dequeues from a
   pool with entries is handed the oldest entry, marked as pre-built; the
   Result of a visit records that mark; the await of a cold build always ends,
   without any other visit having to finish, and when the artifact builds the
   visit then has its Result, recorded as not pre-built. *)
C25_ColdPath ==
  /\ [][\A v \in Visits :
          Dequeues(v) =>
            IF Len(items) = 0
              THEN /\ entry'[v] = nextId + 1
                   /\ nextId' = nextId + 1
                   /\ entryState[entry'[v]] = "none"
                   /\ entryState'[entry'[v]] = "pending"
                   /\ ~isItemPreBuilt'[v]
              ELSE /\ entry'[v] = Head(items)
                   /\ nextId' = nextId
                   /\ isItemPreBuilt'[v]]_vars
  /\ [](\A v \in Visits :
          result[v].exists => result[v].usedPrebuiltSandbox = isItemPreBuilt[v])
  /\ \A v \in Visits :
       AwaitsColdBuild(v)
         ~> /\ pc[v] # "awaitItem"
            /\ artifact = "ok" => (result[v].exists /\ ~result[v].usedPrebuiltSandbox)

\* a second visit was started while the first held the only sandbox of the
\* pool, and has its Result although the first has not finished
C25_Witness ==
  /\ maxSandboxQueueSize = 1
  /\ pc[1] \in StepNames /\ result[1].usedPrebuiltSandbox
  /\ result[2].exists /\ ~result[2].usedPrebuiltSandbox

\* the evaluate() calls that the build last followed made on file f
EvaluationsOf(f) == Cardinality({i \in 1..Len(evaluated) : evaluated[i] = f})

\* the files that a file's import declarations reach, itself included
RECURSIVE ReachableFrom(_, _)
ReachableFrom(io, f) ==
  {f} \cup UNION {ReachableFrom(io, io[f][i]) : i \in 1..Len(io[f])}

\* the files a build loads: its entry scripts and what they import
Loaded ==
  UNION {ReachableFrom(importsOf, scriptList[i]) : i \in {j \in 1..Len(scriptList) : scriptList[j] # 0}}

\* C26: within one sandbox build no file is evaluated twice, and once the
\* build has made its application every file it loaded (entry script or
\* imported module) was evaluated exactly once, also when several scripts of
\* the build import the same module.
C26_EvaluatedOncePerBuild ==
  /\ \A f \in Files : EvaluationsOf(f) <= 1
  /\ \A e \in Entries :
       (building = 0 /\ failedAt = 0 /\ evaluated # <<>> /\ entryState[e] = "sandbox")
         => \A f \in Loaded : EvaluationsOf(f) = 1

\* the build has failed, or was failed by the step
Failed(state) == state \in {"null", "rejected"}

\* C27: the evaluation of a file that throws (an entry script or a module it
\* imports) is the last evaluation of its build; the step that makes it
\* settles the build to null or to a rejection without constructing an
\* application, and after it nothing more is evaluated for that build.  An
\* application exists only for a build that made a sandbox.  The visit that
\* dequeues a failed build ends with an error and without a Result, and makes
\* no call of enqueue; a failed build is not built again, and the only builds
\* started later are the cold builds of visits that find the pool empty.  The
\* worker process keeps running.
C27_FailureAbortsBuild ==
  /\ [](/\ running
        /\ \A i \in 1..Len(evaluated) : evaluated[i] \in throwing => i = Len(evaluated)
        /\ (\E i \in 1..Len(evaluated) : evaluated[i] \in throwing) => failedAt # 0
        /\ appsCreated = Cardinality({e \in Entries : entryState[e] = "sandbox"})
        /\ \A e \in Entries : entryState[e] \in {"sandbox", "null", "rejected"}
                                => entryState[e] = buildApp(artifact)
        /\ \A v \in Visits :
             (entry[v] # 0 /\ Failed(entryState[entry[v]]) /\ pc[v] # "awaitItem")
               => /\ pc[v] \in {"rejected", "thrown", "answered"}
                  /\ thrown[v] \in {"TypeError", "BuildError"}
                  /\ ~result[v].exists
                  /\ enqueueCalls[v] = 0)
  /\ [][/\ (failedAt = 0 /\ failedAt' # 0)
             => /\ Failed(entryState'[building])
                /\ building' = 0
                /\ appsCreated' = appsCreated
                /\ \A j \in 1..Len(scriptList) :
                     j > failedAt' => scriptIndex' # j
        /\ (failedAt # 0 /\ failedAt' # 0)
             => evaluated' = evaluated /\ scriptIndex' = scriptIndex
        /\ \A e \in Entries : Failed(entryState[e]) => entryState'[e] = entryState[e]
        /\ nextId' # nextId => \E v \in Visits : Dequeues(v) /\ Len(items) = 0]_vars

\* a pre-built sandbox whose build rejected was reported as an unhandled
\* rejection, the visit that dequeued it was answered with the error, and the
\* build last followed was aborted
C27_Witness ==
  /\ reported # {}
  /\ \E v \in Visits : pc[v] = "answered" /\ thrown[v] = "BuildError" /\ entry[v] \in reported
  /\ running
  /\ failedAt # 0

\* the attempts at which a regular file exists
ExistingFiles == {i \in 1..Len(attempts) : candidateStats[i] = "file"}

\* C28: for a relative specifier and every combination of what exists at the
\* four candidate paths, resolveImport returns the first candidate, in the
\* order path, path/index.js, path.mjs, path.js, that is a regular file
\* (directories are passed over), and goes to the host's resolution of the
\* specifier exactly when no candidate is a regular file.
C28_ResolutionOrder ==
  (foundPath # "unset" /\ specifierRelative)
    => /\ ExistingFiles # {}
            => \E i \in ExistingFiles : /\ foundPath = attempts[i]
                                        /\ \A j \in ExistingFiles : i <= j
       /\ ExistingFiles = {} <=> foundPath = requireResolve(hostResolves)

\* the path is a directory without index.js, and both path.mjs and path.js
\* exist: path.mjs was returned
C28_Witness ==
  /\ specifierRelative
  /\ candidateStats = <<"directory", "none", "file", "file">>
  /\ foundPath = "path.mjs"

\* the positions of the '/' characters of a specifier
Slashes(m) == {i \in 1..Len(m) : m[i] = "/"}

\* the specifier up to its k-th '/', or all of it when it has k - 1 of them
UpToSlash(m, k) ==
  IF Cardinality(Slashes(m)) < k THEN m
  ELSE SubSeq(m, 1, (CHOOSE i \in Slashes(m) : Cardinality({j \in Slashes(m) : j < i}) = k - 1) - 1)

\* a specifier has a package name: a scoped one needs two segments
HasPackageName(m) == m[1] = "@" => Slashes(m) # {}

\* the first segment, or the first two when the specifier starts with '@'
PackageName(m) == IF m[1] = "@" THEN UpToSlash(m, 2) ELSE UpToSlash(m, 1)

\* C29: for the whitelist of the descriptor, the require function of the
\* sandbox permits a specifier (it goes on to resolve the module) exactly when
\* the specifier's package name - its first '/'-separated segment, or its
\* first two when it starts with '@' - is an element of the whitelist; every
\* module it has loaded is of a whitelisted package.
C29_RequireByPackageName ==
  /\ executed = {} =>
       \A m \in Specifiers, hostHas \in BOOLEAN :
         sandboxRequire(whitelist, m, hostHas) # "ModuleNotAllowed"
           <=> (HasPackageName(m) /\ PackageName(m) \in whitelist)
  /\ \A x \in executed :
       x.via = "require" => (HasPackageName(x.specifier) /\ PackageName(x.specifier) \in whitelist)

\* a sub-path of the whitelisted package a was required and loaded, the scoped
\* package @a/a is permitted with and without a sub-path, and aa and @a/aa,
\* which have a whitelisted name as a prefix, are not
C29_Witness ==
  /\ whitelist = WhitelistCandidates
  /\ [specifier |-> <<"a", "/", "a">>, via |-> "require"] \in executed
  /\ sandboxRequire(whitelist, <<"@", "a", "/", "a">>, TRUE) = "loaded"
  /\ sandboxRequire(whitelist, <<"@", "a", "/", "a", "/">>, TRUE) = "loaded"
  /\ sandboxRequire(whitelist, <<"a", "a">>, TRUE) = "ModuleNotAllowed"
  /\ sandboxRequire(whitelist, <<"@", "a", "/", "a", "a">>, TRUE) = "ModuleNotAllowed"

\* C30: once the forced-destroy timer of a visit has fired, which marks the
\* result with the forced-destruction error, the result bears that error from
\* then on, also when the abandoned boot or render fails later and when the
\* visit returns.
C30_ForcedErrorPersists ==
  \A v \in Visits : timer[v] = "fired" => result[v].error = "Forced"

\* EmberApp.visit has returned its result to EmberSsr.visit
Returned(v) == result[v].exists /\ pc[v] \in {"resolved", "returned", "thrown", "answered"}

\* C31: when a visit has returned its result, with or without an error, its
\* forced-destroy timer is not pending any more; from then on the timer
\* callback does not run and the result, its error and its destroyed state
\* included, does not change.
C31_CompletionCancelsTimer ==
  /\ [](\A v \in Visits : Returned(v) => timer[v] # "armed")
  /\ [][\A v \in Visits : Returned(v) => (result'[v] = result[v] /\ timer'[v] = timer[v])]_vars

\* one visit with a timer returned a rendered result, the other one a result
\* with the application's error, and neither timer fired
C31_Witness ==
  /\ Returned(1) /\ timer[1] = "cleared" /\ result[1].error = "none"
  /\ Returned(2) /\ timer[2] = "cleared" /\ result[2].error = "AppError"

\* C32: a request that the render middleware has handled was either answered
\* on the response object or passed on with one call of next, never both and
\* never neither; a request whose Result carries an error is not forwarded to
\* next(error) and answered with the body as well.
C32_SendOrNext ==
  \A v \in Visits :
    pc[v] = "answered" =>
      /\ response[v].nextCalls <= 1
      /\ response[v].sent # "nothing" <=> response[v].nextCalls = 0

\* worker w was forked by forkWorkers and exited before it sent 'http-online'
ExitedBeforeOnline(w) ==
  /\ w \in StartupWorkers
  /\ workers[w].state \in {"exited", "reaped"}
  /\ ~workers[w].onlineSent

\* a process forked by an exit handler has sent 'http-online'
ReplacementOnline == \E r \in WorkerIds \ StartupWorkers : workers[r].onlineSent

(* C33: when start() waits for its workers, one of them has exited before
   sending 'http-online', a replacement has sent 'http-online' and every other
   worker of forkWorkers has sent it too, then start() eventually completes. *)
C33_StartupSurvivesCrash ==
  (/\ sup.startPc = "forking"
   /\ \E w \in StartupWorkers : ExitedBeforeOnline(w)
   /\ ReplacementOnline
   /\ \A w \in StartupWorkers : ExitedBeforeOnline(w) \/ workers[w].onlineSent)
    ~> sup.startPc = "done"

\* worker w handles a 'reload' while it has an application installed, and the
\* step builds no application: the EmberApp constructor threw
FailedReload(w) ==
  /\ workers[w].appRef # "none"
  /\ workers[w].inbox # <<>>
  /\ Head(workers[w].inbox).event = "reload"
  /\ workers'[w].inbox = Tail(workers[w].inbox)
  /\ Len(workers'[w].apps) = Len(workers[w].apps)

(* C34: when the construction of the new application throws while a worker
   handles 'reload', the worker stays as it was: the application installed
   before is still installed, and it still serves from the client and ssr
   paths of the artifact it was built with. *)
C34_FailedReloadKeepsApp ==
  [][\A w \in WorkerIds :
       FailedReload(w) =>
         /\ workers'[w].state = workers[w].state
         /\ workers'[w].appRef = workers[w].appRef
         /\ workers'[w].apps = workers[w].apps
         /\ AppPaths(workers'[w]).clientPath = AppPaths(workers[w]).clientPath
         /\ AppPaths(workers'[w]).ssrPath = AppPaths(workers[w]).ssrPath]_vars

\* the live workers that have an application installed
Serving == {w \in WorkerIds : workers[w].state \in Alive /\ workers[w].appRef # "none"}

\* a reload was broadcast and no live worker has a message left to handle
ReloadProcessed ==
  /\ sup.notifies > 0
  /\ sup.reinits = 0
  /\ \A w \in WorkerIds : workers[w].state \in Alive => workers[w].inbox = <<>>
  /\ \E w \in WorkerIds : workers[w].reloadedTo # Null

(* C35: once a reload broadcast has been handled by every live worker, all
   live workers that serve, the replacements forked after the reload included,
   serve from the same client path and the same ssr path. *)
C35_WorkersAgreeOnArtifact ==
  ReloadProcessed =>
    \A w1, w2 \in Serving :
      /\ AppPaths(workers[w1]).clientPath = AppPaths(workers[w2]).clientPath
      /\ AppPaths(workers[w1]).ssrPath = AppPaths(workers[w2]).ssrPath

====
